---------------------------- MODULE Spec2Model ----------------------------
(***************************************************************************)
(* Model of the web-translator extension: the content script's            *)
(* translationManager (src/js/content.js), the part of the background      *)
(* script that answers translate_batch (src/js/popup.js, second half), and *)
(* the settings the options page stores (src/js/options.js).               *)
(*                                                                         *)
(* Strings are sequences of tokens so that formatting an error sentinel    *)
(* and testing a prefix are computed, not assumed.                         *)
(***************************************************************************)
EXTENDS Integers, Sequences, FiniteSets, TLC

(***************************************************************************)
(* Bounds of the model                                                     *)
(***************************************************************************)
\* how many IntersectionObservers may be alive (connected or about to be
\* constructed by a suspended start()) at once
MaxObservers == 2
\* how many entries one IntersectionObserver callback delivers at most
MaxEntries == 2
\* the largest batch size the options page stores in the model
MaxStoredBatchSize == 2
\* how many texts a translate_batch message to the background script has at most
MaxRequestTexts == 3
\* how far below 0 the loop index of handleTranslationBatch is followed
MaxBackwardSteps == 2
\* how many toggleTranslationForTab calls may be in flight at once
MaxToggles == 2
\* how many toggle commands are issued in all
MaxCommands == 3

(***************************************************************************)
(* Program constants                                                       *)
(***************************************************************************)
\* content.js: contentBatchSize before any settings are loaded
DefaultContentBatchSize == 30
\* content.js loadSettings: the default chrome.storage.sync.get is given
SettingsDefaultBatchSize == 30
\* content.js loadSettings: the value used when the stored one is not > 0
FallbackBatchSize == 30
\* options.js saveOptions: parseInt(batchSizeInput.value, 10) || 5
OptionsDefaultBatchSize == 5
\* content.js: text.trim().length > 3
MinTextLength == 3
\* popup.js handleTranslationBatch: the default chrome.storage.sync.get is given
BackgroundDefaultBatchSize == 5

(***************************************************************************)
(* The pages of the model.  A page is the sequence, in document order, of  *)
(* the innerText of the elements document.querySelectorAll selects; an     *)
(* element is its position.  The pages have two elements with the same     *)
(* text, elements with different texts, and a text too short once trimmed. *)
(***************************************************************************)
Text == <<"T", "e", "x", "t">>
More == <<"M", "o", "r", "e", "!">>
Short == <<" ", "H", "i", " ">>

Pages == {<<Text, Text>>, <<Text, More>>, <<Short, Text>>}


IsSpace(c) == c = " "

RECURSIVE TrimStart(_)
TrimStart(s) ==
  IF s # <<>> /\ IsSpace(Head(s)) THEN TrimStart(Tail(s)) ELSE s

RECURSIVE TrimEnd(_)
TrimEnd(s) ==
  IF s # <<>> /\ IsSpace(s[Len(s)]) THEN TrimEnd(SubSeq(s, 1, Len(s) - 1)) ELSE s

\* String.prototype.trim
Trim(s) == TrimEnd(TrimStart(s))

\* String.prototype.startsWith
StartsWith(s, p) == Len(s) >= Len(p) /\ SubSeq(s, 1, Len(p)) = p

(***************************************************************************)
(* Result strings                                                          *)
(***************************************************************************)
\* the two error-sentinel prefixes updateTranslation tests
FailPrefix == <<"[", "translation failed">>
CommPrefix == <<"[", "translation communication error">>

\* `[翻译失败: ${error.message}]` built by handleTranslationBatch; an error
\* message of a provider is a sequence of tokens
FailSentinel(msg) == FailPrefix \o <<": ">> \o msg \o <<"]">>
\* `[翻译通信错误: ${error.message}]` built by processQueue's catch
CommSentinel(msg) == CommPrefix \o <<": ", msg, "]">>

IsErrorSentinel(s) == StartsWith(s, FailPrefix) \/ StartsWith(s, CommPrefix)

\* what a provider returns for a text
ProviderTranslation(t) == <<"zh">> \o t

\* messages of the errors the model lets happen
TransportErrors == {"Extension context invalidated."}
OrdinaryError == <<"DeepL API Error: status: ", "456">>
ProviderErrors ==
  {OrdinaryError,
   <<"DeepL API Error: status: ", "429">>,
   <<"DeepL API Error: ", "Quota", " Exceeded">>}

\* String.prototype.toLowerCase, token by token
toLowerCase(msg) ==
  [n \in DOMAIN msg |->
     IF msg[n] = "Quota" THEN "quota"
     ELSE IF msg[n] = " Exceeded" THEN " exceeded"
     ELSE IF msg[n] = "DeepL API Error: " THEN "deepl api error: "
     ELSE IF msg[n] = "DeepL API Error: status: " THEN "deepl api error: status: "
     ELSE msg[n]]

\* String.prototype.includes for a word that is a token
includes(msg, word) == \E n \in DOMAIN msg : msg[n] = word

\* the async callback rethrowing whatever error it caught
IsRateLimit_anyError(msg) == TRUE

\* the test handleTranslationBatch makes before it throws a RateLimitError
IsRateLimit(msg) ==
  LET errorMessage == toLowerCase(msg)
  IN includes(errorMessage, "429") \/ includes(errorMessage, "quota")

\* what one provider call can do: return a string, throw, return undefined
ProviderOutcomes == {"ok", "error", "undefined"}

(***************************************************************************)
(* Styles.  A CSS value is a sequence of tokens, <<>> for a property that  *)
(* is not set, so that the template strings are built as the code builds   *)
(* them.  `padding` is kept as a property of its own beside paddingLeft.    *)
(***************************************************************************)
\* the properties of placeholder.style the program writes
StyleProps ==
  {"fontSize", "marginTop", "paddingLeft", "fontFamily", "lineHeight", "fontStyle",
   "color", "borderLeft", "fontWeight", "textAlign", "textTransform",
   "letterSpacing", "backgroundColor", "padding"}

SansSerif ==
  <<"-apple-system, BlinkMacSystemFont, 'Segoe UI', Roboto, 'Helvetica Neue', Arial, sans-serif">>

\* `${size}em` and `3px solid ${color}`
Em(size) == <<size, "em">>
Border(color) == <<"3px solid ">> \o color

\* the presets object of loadSettings
presets ==
  "default" :>
     [fontFamily |-> SansSerif, lineHeight |-> <<"1.5">>, fontStyle |-> <<"normal">>,
      color |-> <<"#007bff">>, fontSize |-> Em("0.95"), borderLeft |-> Border(<<"#007bff">>)]
  @@ "subtle" :>
     [fontFamily |-> SansSerif, lineHeight |-> <<"1.5">>, fontStyle |-> <<"normal">>,
      color |-> <<"#555">>, fontSize |-> Em("0.9"), borderLeft |-> Border(<<"#ccc">>)]
  @@ "highlighted" :>
     [fontFamily |-> SansSerif, lineHeight |-> <<"1.5">>, fontStyle |-> <<"normal">>,
      color |-> <<"black">>, fontSize |-> Em("0.95"), borderLeft |-> Border(<<"#ffc107">>),
      backgroundColor |-> <<"#fffbe6">>, padding |-> <<"5px 10px">>]

\* the style updateTranslation gives an error result
ErrorStyle ==
  [fontFamily |-> SansSerif, lineHeight |-> <<"1.5">>, fontStyle |-> <<"normal">>,
   color |-> <<"#d9534f">>, borderLeft |-> Border(<<"#d9534f">>), fontSize |-> Em("0.9")]

\* the properties updateTranslation copies from the original element
propsToCopy ==
  {"fontFamily", "fontSize", "fontWeight", "fontStyle", "color", "lineHeight",
   "textAlign", "textTransform", "letterSpacing"}

\* window.getComputedStyle(originalElement): the first element of a page is
\* a heading, the others are body text
ComputedStyle(originalElement) ==
  [fontFamily |-> <<"Georgia, serif">>,
   fontSize |-> IF originalElement = 1 THEN <<"32px">> ELSE <<"16px">>,
   fontWeight |-> IF originalElement = 1 THEN <<"700">> ELSE <<"400">>,
   fontStyle |-> <<"normal">>,
   color |-> <<"rgb(51, 51, 51)">>,
   lineHeight |-> <<"normal">>,
   textAlign |-> <<"start">>,
   textTransform |-> <<"none">>,
   letterSpacing |-> <<"normal">>]

\* what chrome.storage.sync.get yields for the style items before the
\* options page has saved any
DefaultStyleItems ==
  [stylePreset |-> "default",
   customStyle |-> [fontSize |-> "0.95", color |-> "#007bff"],
   matchOriginalStyle |-> FALSE]

\* the style items the options page can have saved
StoredStyleItems ==
  [stylePreset : {"default", "subtle", "highlighted", "custom"},
   customStyle : {[fontSize |-> "0.95", color |-> "#007bff"],
                  [fontSize |-> "1.2", color |-> "#d9534f"]},
   matchOriginalStyle : BOOLEAN]

\* translationManager.styleSettings before loadSettings has run: null
NullSettings == [loaded |-> FALSE, match |-> FALSE, style |-> <<>>]

\* the second half of loadSettings: the styleSettings it assigns
loadStyleSettings(items) ==
  IF items.matchOriginalStyle
  THEN [loaded |-> TRUE, match |-> TRUE, style |-> <<>>]
  ELSE IF items.stylePreset = "custom"
  THEN [loaded |-> TRUE, match |-> FALSE,
        style |-> [fontFamily |-> SansSerif, lineHeight |-> <<"1.5">>,
                   fontStyle |-> <<"normal">>,
                   color |-> <<items.customStyle.color>>,
                   fontSize |-> Em(items.customStyle.fontSize),
                   borderLeft |-> Border(<<items.customStyle.color>>)]]
  ELSE [loaded |-> TRUE, match |-> FALSE,
        style |-> IF items.stylePreset \in DOMAIN presets
                  THEN presets[items.stylePreset] ELSE presets["default"]]

\* Object.assign(placeholder.style, source), and single assignments
Assign(style, source) ==
  [prop \in StyleProps |-> IF prop \in DOMAIN source THEN source[prop] ELSE style[prop]]

(***************************************************************************)
(* State                                                                   *)
(***************************************************************************)
VARIABLES
  page,                    \* the document: page[e] is element e's innerText
  isTranslationActive,     \* translationManager.isTranslationActive
  observer,                \* translationManager.observer: 0 is null, else an observer id
  connected,               \* the IntersectionObservers that exist and are not disconnected
  observed,                \* observed[o]: the elements observer o is observing
  startsAwaiting,          \* start() calls suspended at `await this.loadSettings()`
  accumulationQueue,       \* the Set, in insertion order
  queueTimeout,            \* translationManager.queueTimeout: 0 is null, else a timer id
  timers,                  \* the timer ids whose callback is still to run
  contentBatchSize,        \* translationManager.contentBatchSize
  styleSettings,           \* translationManager.styleSettings
  translationRequested,    \* elements with dataset.translationRequested
  translated,              \* elements with dataset.translated
  translationPlaceholders, \* the Map: source text -> [placeholder, originalElement]
  requests,                \* the translate_batch messages, in send order
  handed,                  \* history: the batches handed to processQueue
  discarded,               \* history: the elements stop() cleared from the queue
  outdated,                \* history: the pending timers set before the latest arrival
  evaluations,             \* history: evaluations[e] counts the callbacks that
                           \* evaluated element e in the session (0 when Idle)
  invocation,              \* the background script's handleTranslationBatch call
  activeTranslationTabs,   \* the background script's object: tab id -> boolean
  tabs,                    \* tabs[id]: a browser tab, its url and its page context
  toggles,                 \* the toggleTranslationForTab calls in flight
  toggleLog                \* history: the commands issued, the messages the
                           \* completed toggles sent, the calls a message made

\* the elements document.querySelectorAll selects
Elements == DOMAIN page

\* element.innerText
innerText(e) == page[e]

vars == <<page, isTranslationActive, observer, connected, observed, startsAwaiting,
          accumulationQueue, queueTimeout, timers, contentBatchSize, styleSettings,
          translationRequested, translated, translationPlaceholders, requests,
          handed, discarded, outdated, evaluations, invocation,
          activeTranslationTabs, tabs, toggles, toggleLog>>

\* the variables of the registry and of the tabs
registryVars == <<activeTranslationTabs, tabs, toggles, toggleLog>>

\* the variables of the content script
contentVars ==
  <<page, isTranslationActive, observer, connected, observed, startsAwaiting,
    accumulationQueue, queueTimeout, timers, contentBatchSize, styleSettings,
    translationRequested, translated, translationPlaceholders, requests,
    handed, discarded, outdated, evaluations>>

\* the state of the page and of the manager, without console and history
pageVars == <<isTranslationActive, observer, connected, observed, startsAwaiting,
              accumulationQueue, queueTimeout, timers, contentBatchSize, styleSettings,
              translationRequested, translated, translationPlaceholders, requests>>

ObserverIds == 1..MaxObservers

\* what parseInt can make of the options page's batch size field (0 also
\* stands for NaN: both are falsy)
ParsedBatchSizes == {-1} \cup (1..MaxStoredBatchSize)

\* saveOptions: the batchSize it writes to chrome.storage.sync
saveOptions(parsed) == IF parsed # 0 THEN parsed ELSE OptionsDefaultBatchSize

\* the batchSize chrome.storage.sync can hold: nothing (0 here) before the
\* options page has saved, else what saveOptions wrote
StoredBatchSizes == {0} \cup {saveOptions(parsed) : parsed \in ParsedBatchSizes}

EmptyMap == [t \in {} |-> <<>>]

\* a freshly created placeholder <div>: loading class, a spinner child, no
\* text, and the three properties createPlaceholdersFor sets
LoadingNode ==
  [className |-> "translation-placeholder-loading",
   spinner |-> TRUE,
   innerText |-> <<>>,
   style |-> Assign([prop \in StyleProps |-> <<>>],
                    [fontSize |-> Em("0.9"), marginTop |-> <<"5px">>,
                     paddingLeft |-> <<"10px">>])]

\* the ids of the browser's tabs
TabIds == {1, 2}

\* a page context in which content.js has not run
NewWindow ==
  [translationManager |-> FALSE, listeners |-> 0, isTranslationActive |-> FALSE]

\* a tab showing an ordinary page
NewTab == [open |-> TRUE, url |-> "https://", window |-> NewWindow]

\* `let activeTranslationTabs = {}`
EmptyRegistry == [id \in {} |-> FALSE]

NoLog ==
  [commands |-> 0, sent |-> [id \in TabIds |-> <<>>], invoked |-> [id \in TabIds |-> 0]]

\* no translate_batch message has reached the background script
NoInvocation ==
  [pc |-> "idle", texts |-> <<>>, batchSize |-> 0, i |-> 0, calls |-> <<>>,
   promises |-> {}, results |-> <<>>,
   translationMap |-> EmptyMap, responded |-> FALSE, response |-> EmptyMap,
   responses |-> 0, detected |-> FALSE]

Init ==
  /\ page \in Pages
  /\ isTranslationActive = FALSE
  /\ observer = 0
  /\ connected = {}
  /\ observed = [o \in ObserverIds |-> {}]
  /\ startsAwaiting = 0
  /\ accumulationQueue = <<>>
  /\ queueTimeout = 0
  /\ timers = {}
  /\ contentBatchSize = DefaultContentBatchSize
  /\ styleSettings = NullSettings
  /\ translationRequested = {}
  /\ translated = {}
  /\ translationPlaceholders = EmptyMap
  /\ requests = <<>>
  /\ handed = <<>>
  /\ discarded = {}
  /\ outdated = {}
  /\ evaluations = [e \in Elements |-> 0]
  /\ invocation = NoInvocation
  /\ activeTranslationTabs = EmptyRegistry
  /\ tabs = [id \in TabIds |-> NewTab]
  /\ toggles = <<>>
  /\ toggleLog = NoLog


Range(s) == {s[i] : i \in DOMAIN s}

(***************************************************************************)
(* Placeholder Renderer                                                    *)
(***************************************************************************)
\* createPlaceholdersFor without `if (this.translationPlaceholders.has(...)) return`
RECURSIVE createPlaceholdersFor_noHas(_, _)
createPlaceholdersFor_noHas(s, elements) ==
  IF elements = <<>> THEN s
  ELSE LET p == Head(elements)
           originalText == innerText(p)
       IN IF ~isTranslationActive
          THEN createPlaceholdersFor_noHas(s, Tail(elements))
          ELSE createPlaceholdersFor_noHas(
                 [s EXCEPT !.placeholders =
                              (originalText :> [placeholder |-> LoadingNode,
                                                originalElement |-> p]) @@ @,
                           !.translated = @ \cup {p}],
                 Tail(elements))

\* createPlaceholdersFor; s carries the Map and the dataset.translated flags
RECURSIVE createPlaceholdersFor(_, _)
createPlaceholdersFor(s, elements) ==
  IF elements = <<>> THEN s
  ELSE LET p == Head(elements)
           originalText == innerText(p)
       IN IF ~isTranslationActive \/ originalText \in DOMAIN s.placeholders
          THEN createPlaceholdersFor(s, Tail(elements))
          ELSE createPlaceholdersFor(
                 [s EXCEPT !.placeholders =
                              (originalText :> [placeholder |-> LoadingNode,
                                                originalElement |-> p]) @@ @,
                           !.translated = @ \cup {p}],
                 Tail(elements))

\* render testing styleSettings.match before the error-sentinel prefixes
render_matchFirst(entry, translatedText, settings) ==
  LET common == Assign(entry.placeholder.style,
                       [marginTop |-> <<"5px">>, paddingLeft |-> <<"10px">>])
      computedStyle == ComputedStyle(entry.originalElement)
  IN [className |-> "translation-placeholder-done",
      spinner |-> FALSE,
      innerText |-> translatedText,
      style |->
        IF settings.match
        THEN Assign(Assign(common, [prop \in propsToCopy |-> computedStyle[prop]]),
                    [borderLeft |-> Border(computedStyle.color)])
        ELSE IF IsErrorSentinel(translatedText) THEN Assign(common, ErrorStyle)
        ELSE Assign(common, settings.style)]

\* the body of updateTranslation for an entry of the Map: the node it
\* leaves, under the styleSettings given
render(entry, translatedText, settings) ==
  LET common == Assign(entry.placeholder.style,
                       [marginTop |-> <<"5px">>, paddingLeft |-> <<"10px">>])
      computedStyle == ComputedStyle(entry.originalElement)
  IN [className |-> "translation-placeholder-done",
      spinner |-> FALSE,
      innerText |-> translatedText,
      style |->
        IF IsErrorSentinel(translatedText) THEN Assign(common, ErrorStyle)
        ELSE IF settings.match
        THEN Assign(Assign(common, [prop \in propsToCopy |-> computedStyle[prop]]),
                    [borderLeft |-> Border(computedStyle.color)])
        ELSE Assign(common, settings.style)]

updateTranslation(placeholders, originalText, translatedText) ==
  IF originalText \in DOMAIN placeholders
  THEN [placeholders EXCEPT ![originalText].placeholder =
          render(placeholders[originalText], translatedText, styleSettings)]
  ELSE placeholders

\* the visual state of a placeholder entry
VisualState(entry) ==
  IF entry.placeholder.className = "translation-placeholder-loading" THEN "loading"
  ELSE IF IsErrorSentinel(entry.placeholder.innerText) THEN "error"
  ELSE "done"

(***************************************************************************)
(* Dispatcher and Batch Accumulator.  The operators below thread a record  *)
(* of the fields one synchronous run of the manager can change.            *)
(***************************************************************************)
Manager ==
  [queue |-> accumulationQueue, placeholders |-> translationPlaceholders,
   translated |-> translated, requests |-> requests, timers |-> timers,
   queueTimeout |-> queueTimeout, handed |-> handed, outdated |-> outdated]

\* chrome.runtime.sendMessage({action: 'translate_batch', texts}): the message
\* joins the requests; placeholdersReady records whether every text had a
\* placeholder at that moment, lookups the texts updateTranslation is called
\* with once the message is answered
sendMessage(m, elementsToTranslate, textsToTranslate) ==
  [m EXCEPT !.requests =
     Append(@, [elements |-> elementsToTranslate,
                texts |-> textsToTranslate,
                state |-> "sent",
                stoppedSince |-> FALSE,
                lookups |-> {},
                placeholdersReady |->
                  \A k \in DOMAIN textsToTranslate :
                    textsToTranslate[k] \in DOMAIN m.placeholders])]

\* processQueue sending the message before it creates the placeholders
processQueue_sendFirst(m, elementsToTranslate, cause) ==
  LET h == [m EXCEPT !.handed = Append(@, [elements |-> elementsToTranslate,
                                           maxBatchSize |-> contentBatchSize,
                                           cause |-> cause])]
  IN IF Len(elementsToTranslate) = 0 \/ ~isTranslationActive THEN h
     ELSE LET textsToTranslate == [i \in DOMAIN elementsToTranslate |->
                                      innerText(elementsToTranslate[i])]
          IN createPlaceholdersFor(
               sendMessage(h, elementsToTranslate, textsToTranslate),
               elementsToTranslate)

\* processQueue without the test of isTranslationActive in its guard
processQueue_noActiveCheck(m, elementsToTranslate, cause) ==
  LET h == [m EXCEPT !.handed = Append(@, [elements |-> elementsToTranslate,
                                           maxBatchSize |-> contentBatchSize,
                                           cause |-> cause])]
  IN IF Len(elementsToTranslate) = 0 THEN h
     ELSE LET textsToTranslate == [i \in DOMAIN elementsToTranslate |->
                                      innerText(elementsToTranslate[i])]
              c == createPlaceholdersFor(h, elementsToTranslate)
          IN sendMessage(c, elementsToTranslate, textsToTranslate)

\* processQueue up to its await: the guard, the placeholders, the message
processQueue(m, elementsToTranslate, cause) ==
  LET h == [m EXCEPT !.handed = Append(@, [elements |-> elementsToTranslate,
                                           maxBatchSize |-> contentBatchSize,
                                           cause |-> cause])]
  IN IF Len(elementsToTranslate) = 0 \/ ~isTranslationActive THEN h
     ELSE LET textsToTranslate == [i \in DOMAIN elementsToTranslate |->
                                      innerText(elementsToTranslate[i])]
              c == createPlaceholdersFor(h, elementsToTranslate)
          IN sendMessage(c, elementsToTranslate, textsToTranslate)

\* setTimeout's return value: an id no pending timer has
NewTimerId(ts) ==
  CHOOSE i \in 1..(Cardinality(ts) + 1) : i \notin ts /\ \A j \in 1..(i - 1) : j \in ts

\* debouncedProcessQueue without its setTimeout
debouncedProcessQueue_noTimer(m) ==
  [m EXCEPT !.timers = m.timers \ {m.queueTimeout},
            !.outdated = m.outdated \ {m.queueTimeout}]

debouncedProcessQueue(m) ==
  LET cleared == m.timers \ {m.queueTimeout}
      id == NewTimerId(cleared)
  IN [m EXCEPT !.timers = cleared \cup {id}, !.queueTimeout = id,
               !.outdated = m.outdated \cap cleared]

\* triggerBatchProcessing with `>` for `>=` in the loop condition
RECURSIVE triggerBatchProcessing_strict(_)
triggerBatchProcessing_strict(m) ==
  IF Len(m.queue) > contentBatchSize
  THEN LET elementsToTranslate == SubSeq(m.queue, 1, contentBatchSize)
           rest == SubSeq(m.queue, contentBatchSize + 1, Len(m.queue))
       IN triggerBatchProcessing_strict(
            processQueue([m EXCEPT !.queue = rest], elementsToTranslate, "size"))
  ELSE IF Len(m.queue) > 0 THEN debouncedProcessQueue(m)
  ELSE m

RECURSIVE triggerBatchProcessing(_)
triggerBatchProcessing(m) ==
  IF Len(m.queue) >= contentBatchSize
  THEN LET elementsToTranslate == SubSeq(m.queue, 1, contentBatchSize)
           rest == SubSeq(m.queue, contentBatchSize + 1, Len(m.queue))
       IN triggerBatchProcessing(
            processQueue([m EXCEPT !.queue = rest], elementsToTranslate, "size"))
  ELSE IF Len(m.queue) > 0 THEN debouncedProcessQueue(m)
  ELSE m

\* the assignment of a Manager record back to the variables
Commit(m) ==
  /\ accumulationQueue' = m.queue
  /\ translationPlaceholders' = m.placeholders
  /\ translated' = m.translated
  /\ requests' = m.requests
  /\ timers' = m.timers
  /\ queueTimeout' = m.queueTimeout
  /\ handed' = m.handed
  /\ outdated' = m.outdated

(***************************************************************************)
(* Session State Machine                                                   *)
(***************************************************************************)
\* start() without its `if (this.isTranslationActive) return`
start_noGuard ==
  /\ Cardinality(connected) + startsAwaiting < MaxObservers
  /\ isTranslationActive' = TRUE
  /\ startsAwaiting' = startsAwaiting + 1
  /\ evaluations' = [e \in Elements |-> 0]
  /\ UNCHANGED <<registryVars, invocation, page, observer, connected, observed, accumulationQueue, queueTimeout,
                 timers, contentBatchSize, styleSettings, translationRequested, translated,
                 translationPlaceholders, requests, handed, discarded, outdated>>

\* start() up to `await this.loadSettings()`
start ==
  IF isTranslationActive
  THEN UNCHANGED vars
  ELSE /\ Cardinality(connected) + startsAwaiting < MaxObservers
       /\ isTranslationActive' = TRUE
       /\ startsAwaiting' = startsAwaiting + 1
       /\ evaluations' = [e \in Elements |-> 0]
       /\ UNCHANGED <<registryVars, invocation, page, observer, connected, observed, accumulationQueue, queueTimeout,
                      timers, contentBatchSize, styleSettings, translationRequested, translated,
                      translationPlaceholders, requests,
                      handed, discarded, outdated>>

\* loadSettings taking the stored batch size as it is
loadSettings_noFallback(storedBatchSize) ==
  IF storedBatchSize = 0 THEN SettingsDefaultBatchSize ELSE storedBatchSize

\* the batch size loadSettings computes from what chrome.storage.sync holds
loadSettings(storedBatchSize) ==
  LET items == IF storedBatchSize = 0 THEN SettingsDefaultBatchSize ELSE storedBatchSize
  IN IF items > 0 THEN items ELSE FallbackBatchSize

NewObserverId == CHOOSE o \in ObserverIds : o \notin connected

\* the settings read resolves: loadSettings finishes and start() runs to its end
startResume(storedBatchSize) ==
  /\ startsAwaiting > 0
  /\ startsAwaiting' = startsAwaiting - 1
  /\ contentBatchSize' = loadSettings(storedBatchSize)
  /\ styleSettings' = loadStyleSettings(DefaultStyleItems)
  /\ observer' = NewObserverId
  /\ connected' = connected \cup {NewObserverId}
  /\ observed' = [observed EXCEPT ![NewObserverId] = Elements]
  /\ UNCHANGED <<registryVars, invocation, page, isTranslationActive, accumulationQueue, queueTimeout, timers,
                 translationRequested, translated, translationPlaceholders, requests,
                 handed, discarded, outdated, evaluations>>

\* stop() without `this.accumulationQueue.clear()`
stop_keepQueue ==
  IF ~isTranslationActive
  THEN UNCHANGED vars
  ELSE /\ isTranslationActive' = FALSE
       /\ IF observer # 0
          THEN /\ connected' = connected \ {observer}
               /\ observed' = [observed EXCEPT ![observer] = {}]
               /\ observer' = 0
          ELSE UNCHANGED <<observer, connected, observed>>
       /\ timers' = timers \ {queueTimeout}
       /\ outdated' = outdated \ {queueTimeout}
       /\ evaluations' = [e \in Elements |-> 0]
       /\ accumulationQueue' = accumulationQueue
       /\ discarded' = discarded
       /\ requests' = [i \in DOMAIN requests |->
                         IF requests[i].state # "sent" THEN requests[i]
                         ELSE [requests[i] EXCEPT !.stoppedSince = TRUE]]
       /\ UNCHANGED <<registryVars, invocation, page, startsAwaiting, queueTimeout, contentBatchSize, styleSettings,
                      translationRequested, translated, translationPlaceholders,
                      handed>>

\* stop() also deleting the requested flag of the elements it discards
stop_clearFlag ==
  IF ~isTranslationActive
  THEN UNCHANGED vars
  ELSE /\ isTranslationActive' = FALSE
       /\ IF observer # 0
          THEN /\ connected' = connected \ {observer}
               /\ observed' = [observed EXCEPT ![observer] = {}]
               /\ observer' = 0
          ELSE UNCHANGED <<observer, connected, observed>>
       /\ timers' = timers \ {queueTimeout}
       /\ outdated' = outdated \ {queueTimeout}
       /\ evaluations' = [e \in Elements |-> 0]
       /\ accumulationQueue' = <<>>
       /\ discarded' = discarded \cup Range(accumulationQueue)
       /\ requests' = [i \in DOMAIN requests |->
                         IF requests[i].state # "sent" THEN requests[i]
                         ELSE [requests[i] EXCEPT !.stoppedSince = TRUE]]
       /\ translationRequested' = translationRequested \ Range(accumulationQueue)
       /\ UNCHANGED <<registryVars, invocation, page, startsAwaiting, queueTimeout,
                      contentBatchSize, styleSettings, translationPlaceholders, translated,
                      handed>>

\* stop() also clearing the Map of placeholders
stop_clearMap ==
  IF ~isTranslationActive
  THEN UNCHANGED vars
  ELSE /\ isTranslationActive' = FALSE
       /\ IF observer # 0
          THEN /\ connected' = connected \ {observer}
               /\ observed' = [observed EXCEPT ![observer] = {}]
               /\ observer' = 0
          ELSE UNCHANGED <<observer, connected, observed>>
       /\ timers' = timers \ {queueTimeout}
       /\ outdated' = outdated \ {queueTimeout}
       /\ evaluations' = [e \in Elements |-> 0]
       /\ accumulationQueue' = <<>>
       /\ discarded' = discarded \cup Range(accumulationQueue)
       /\ requests' = [i \in DOMAIN requests |->
                         IF requests[i].state # "sent" THEN requests[i]
                         ELSE [requests[i] EXCEPT !.stoppedSince = TRUE]]
       /\ translationPlaceholders' = EmptyMap
       /\ UNCHANGED <<registryVars, invocation, page, startsAwaiting, queueTimeout,
                      contentBatchSize, styleSettings, translationRequested, translated,
                      handed>>

stop ==
  IF ~isTranslationActive
  THEN UNCHANGED vars
  ELSE /\ isTranslationActive' = FALSE
       /\ IF observer # 0
          THEN /\ connected' = connected \ {observer}
               /\ observed' = [observed EXCEPT ![observer] = {}]
               /\ observer' = 0
          ELSE UNCHANGED <<observer, connected, observed>>
       /\ timers' = timers \ {queueTimeout}
       /\ outdated' = outdated \ {queueTimeout}
       /\ evaluations' = [e \in Elements |-> 0]
       /\ accumulationQueue' = <<>>
       /\ discarded' = discarded \cup Range(accumulationQueue)
       /\ requests' = [i \in DOMAIN requests |->
                         IF requests[i].state # "sent" THEN requests[i]
                         ELSE [requests[i] EXCEPT !.stoppedSince = TRUE]]
       /\ UNCHANGED <<registryVars, invocation, page, startsAwaiting, queueTimeout, contentBatchSize, styleSettings,
                      translationRequested, translated, translationPlaceholders,
                      handed>>

(***************************************************************************)
(* Visibility Tracker                                                      *)
(***************************************************************************)
\* the entry lists an observer can deliver: one entry per target whose
\* intersection changed, in the order the targets were observed
EntryLists(targets) ==
  {es \in UNION {[1..n -> [target : targets, isIntersecting : BOOLEAN]] :
                   n \in 1..MaxEntries} :
     \A i, j \in DOMAIN es : i < j => es[i].target < es[j].target}

\* forEachEntry without the test of dataset.translationRequested
RECURSIVE forEachEntry_noFlag(_, _)
forEachEntry_noFlag(a, entries) ==
  IF entries = <<>> THEN a
  ELSE LET entry == Head(entries)
           element == entry.target
           text == innerText(element)
           queued == /\ element \notin translated
                     /\ text # <<>>
                     /\ Len(Trim(text)) > MinTextLength
       IN IF ~entry.isIntersecting THEN forEachEntry_noFlag(a, Tail(entries))
          ELSE forEachEntry_noFlag(
                 [queue |-> IF queued /\ element \notin Range(a.queue)
                            THEN Append(a.queue, element) ELSE a.queue,
                  requested |-> IF queued THEN a.requested \cup {element}
                                ELSE a.requested,
                  unobserved |-> a.unobserved \cup {element}],
                 Tail(entries))

\* forEachEntry testing text.length instead of text.trim().length
RECURSIVE forEachEntry_noTrim(_, _)
forEachEntry_noTrim(a, entries) ==
  IF entries = <<>> THEN a
  ELSE LET entry == Head(entries)
           element == entry.target
           text == innerText(element)
           queued == /\ element \notin translated
                     /\ element \notin a.requested
                     /\ text # <<>>
                     /\ Len(text) > MinTextLength
       IN IF ~entry.isIntersecting THEN forEachEntry_noTrim(a, Tail(entries))
          ELSE forEachEntry_noTrim(
                 [queue |-> IF queued /\ element \notin Range(a.queue)
                            THEN Append(a.queue, element) ELSE a.queue,
                  requested |-> IF queued THEN a.requested \cup {element}
                                ELSE a.requested,
                  unobserved |-> a.unobserved \cup {element}],
                 Tail(entries))

\* entries.forEach of handleIntersection; a carries the queue, the
\* translationRequested flags and the targets unobserved so far
RECURSIVE forEachEntry(_, _)
forEachEntry(a, entries) ==
  IF entries = <<>> THEN a
  ELSE LET entry == Head(entries)
           element == entry.target
           text == innerText(element)
           queued == /\ element \notin translated
                     /\ element \notin a.requested
                     /\ text # <<>>
                     /\ Len(Trim(text)) > MinTextLength
       IN IF ~entry.isIntersecting THEN forEachEntry(a, Tail(entries))
          ELSE forEachEntry(
                 [queue |-> IF queued /\ element \notin Range(a.queue)
                            THEN Append(a.queue, element) ELSE a.queue,
                  requested |-> IF queued THEN a.requested \cup {element}
                                ELSE a.requested,
                  unobserved |-> a.unobserved \cup {element}],
                 Tail(entries))

handleIntersection(o, entries) ==
  /\ o \in connected
  /\ entries \in EntryLists(observed[o])
  /\ IF ~isTranslationActive THEN UNCHANGED vars
     ELSE LET a == forEachEntry([queue |-> accumulationQueue,
                                 requested |-> translationRequested,
                                 unobserved |-> {}], entries)
              newItemsAdded == a.requested # translationRequested
              m == [Manager EXCEPT !.queue = a.queue,
                                   !.outdated = IF newItemsAdded THEN timers ELSE @]
          IN /\ translationRequested' = a.requested
             /\ observed' = [observed EXCEPT ![o] = @ \ a.unobserved]
             /\ evaluations' = [e \in Elements |->
                                  IF e \in a.unobserved THEN evaluations[e] + 1
                                  ELSE evaluations[e]]
             /\ Commit(IF newItemsAdded THEN triggerBatchProcessing(m) ELSE m)
             /\ UNCHANGED <<registryVars, invocation, page, isTranslationActive, observer, connected, startsAwaiting,
                            contentBatchSize, styleSettings, discarded>>

\* the callback debouncedProcessQueue gave to setTimeout runs
flushTimer(t) ==
  /\ t \in timers
  /\ LET remainingElements == accumulationQueue
         m == [Manager EXCEPT !.queue = <<>>, !.timers = @ \ {t},
                              !.outdated = @ \ {t}]
     IN Commit(IF Len(remainingElements) > 0
               THEN processQueue(m, remainingElements, "flush")
               ELSE m)
  /\ UNCHANGED <<registryVars, invocation, page, isTranslationActive, observer, connected, observed, startsAwaiting,
                 contentBatchSize, styleSettings, translationRequested,
                 discarded, evaluations>>

(***************************************************************************)
(* Background script: the translate_batch listener                         *)
(***************************************************************************)
\* the map handleTranslationBatch returns when every provider call settles
\* as outcome says
handleTranslationBatch(texts, outcome) ==
  [t \in {x \in Range(texts) : outcome[x] # "undefined"} |->
     IF outcome[t] = "ok" THEN ProviderTranslation(t)
     ELSE FailSentinel(OrdinaryError)]

\* what the listener's translate_batch case answers: the handler's map, or
\* {} from its catch when the handler throws because no API key is set
translate_batch(texts, apiKeySet, outcome) ==
  IF ~apiKeySet THEN EmptyMap ELSE handleTranslationBatch(texts, outcome)

\* the ways the provider calls for a list of texts can end
Outcomes(texts) == [Range(texts) -> ProviderOutcomes]

(***************************************************************************)
(* processQueue after its await                                            *)
(***************************************************************************)
\* the for-in loop leaving after its first key
updateAll_oneKey(placeholders, keys, map) ==
  IF keys = {} THEN placeholders
  ELSE LET originalText == CHOOSE k \in keys : TRUE
       IN updateTranslation(placeholders, originalText, map[originalText])

\* the for-in loop over the keys of the TranslationMap
RECURSIVE updateAll(_, _, _)
updateAll(placeholders, keys, map) ==
  IF keys = {} THEN placeholders
  ELSE LET originalText == CHOOSE k \in keys : TRUE
       IN updateAll(updateTranslation(placeholders, originalText, map[originalText]),
                    keys \ {originalText}, map)

\* the resolution of sendMessage dropping the response of a batch that was
\* dispatched before a stop()
responseArrives_sameSession(i, translationMap) ==
  /\ i \in DOMAIN requests
  /\ requests[i].state = "sent"
  /\ requests' = [requests EXCEPT ![i].state = "settled", ![i].stoppedSince = FALSE,
                                  ![i].lookups = IF isTranslationActive /\ ~requests[i].stoppedSince
                                                 THEN DOMAIN translationMap ELSE {}]
  /\ translationPlaceholders' =
       IF isTranslationActive /\ ~requests[i].stoppedSince
       THEN updateAll(translationPlaceholders, DOMAIN translationMap, translationMap)
       ELSE translationPlaceholders
  /\ UNCHANGED <<registryVars, invocation, page, isTranslationActive, observer, connected, observed, startsAwaiting,
                 accumulationQueue, queueTimeout, timers, contentBatchSize, styleSettings,
                 translationRequested, translated, handed, discarded, outdated,
                 evaluations>>

\* the resolution of sendMessage without the recheck of isTranslationActive
responseArrives_noRecheck(i, translationMap) ==
  /\ i \in DOMAIN requests
  /\ requests[i].state = "sent"
  /\ requests' = [requests EXCEPT ![i].state = "settled", ![i].stoppedSince = FALSE,
                                  ![i].lookups = DOMAIN translationMap]
  /\ translationPlaceholders' =
       updateAll(translationPlaceholders, DOMAIN translationMap, translationMap)
  /\ UNCHANGED <<registryVars, invocation, page, isTranslationActive, observer, connected, observed, startsAwaiting,
                 accumulationQueue, queueTimeout, timers, contentBatchSize, styleSettings,
                 translationRequested, translated, handed, discarded, outdated,
                 evaluations>>

\* sendMessage resolves with the TranslationMap the background answered
responseArrives(i, translationMap) ==
  /\ i \in DOMAIN requests
  /\ requests[i].state = "sent"
  /\ requests' = [requests EXCEPT ![i].state = "settled", ![i].stoppedSince = FALSE,
                                  ![i].lookups = IF isTranslationActive
                                                 THEN DOMAIN translationMap ELSE {}]
  /\ translationPlaceholders' =
       IF isTranslationActive
       THEN updateAll(translationPlaceholders, DOMAIN translationMap, translationMap)
       ELSE translationPlaceholders
  /\ UNCHANGED <<registryVars, invocation, page, isTranslationActive, observer, connected, observed, startsAwaiting,
                 accumulationQueue, queueTimeout, timers, contentBatchSize, styleSettings,
                 translationRequested, translated, handed, discarded, outdated,
                 evaluations>>

\* the catch block updating only the first text of the batch
updateEach_headOnly(placeholders, texts, result) ==
  IF texts = <<>> THEN placeholders
  ELSE updateTranslation(placeholders, Head(texts), result)

\* the forEach of the catch block
RECURSIVE updateEach(_, _, _)
updateEach(placeholders, texts, result) ==
  IF texts = <<>> THEN placeholders
  ELSE updateEach(updateTranslation(placeholders, Head(texts), result),
                  Tail(texts), result)

\* sendMessage rejects: the catch block of processQueue
sendMessageRejects(i, message) ==
  /\ i \in DOMAIN requests
  /\ requests[i].state = "sent"
  /\ requests' = [requests EXCEPT ![i].state = "settled", ![i].stoppedSince = FALSE,
                                  ![i].lookups = Range(requests[i].texts)]
  /\ translationPlaceholders' =
       updateEach(translationPlaceholders, requests[i].texts, CommSentinel(message))
  /\ UNCHANGED <<registryVars, invocation, page, isTranslationActive, observer, connected, observed, startsAwaiting,
                 accumulationQueue, queueTimeout, timers, contentBatchSize, styleSettings,
                 translationRequested, translated, handed, discarded, outdated,
                 evaluations>>

Next ==
  \/ start
  \/ \E storedBatchSize \in StoredBatchSizes : startResume(storedBatchSize)
  \/ stop
  \/ \E o \in ObserverIds : \E entries \in EntryLists(observed[o]) :
       handleIntersection(o, entries)
  \/ \E t \in timers : flushTimer(t)
  \/ \E i \in DOMAIN requests : \E apiKeySet \in BOOLEAN :
       \E outcome \in Outcomes(requests[i].texts) :
         responseArrives(i, translate_batch(requests[i].texts, apiKeySet, outcome))
  \/ \E i \in DOMAIN requests : \E message \in TransportErrors :
       sendMessageRejects(i, message)

Spec == Init /\ [][Next]_vars

\* timers run: a pending setTimeout callback is eventually called
LiveSpec == Spec /\ WF_vars(\E t \in timers : flushTimer(t))

(***************************************************************************)
(* The Placeholder Renderer on its own: updateTranslation called with any  *)
(* text and any result, in any order, under every styleSettings            *)
(* loadSettings can assign.  The session is Active and every element long  *)
(* enough to be translated has its placeholder.                            *)
(***************************************************************************)
\* the elements of the page that handleIntersection admits, in document order
RECURSIVE Translatable(_)
Translatable(e) ==
  IF e \notin Elements THEN <<>>
  ELSE (IF Len(Trim(innerText(e))) > MinTextLength THEN <<e>> ELSE <<>>)
       \o Translatable(e + 1)

\* the translatedText arguments: translations and both error sentinels
RenderResults ==
  {ProviderTranslation(Text), ProviderTranslation(More)}
    \cup {FailSentinel(msg) : msg \in ProviderErrors}
    \cup {CommSentinel(msg) : msg \in TransportErrors}

\* the originalText arguments: texts with a placeholder and texts without
RenderTexts == {Text, More, Short}

RenderInit ==
  /\ page \in Pages
  /\ isTranslationActive = TRUE
  /\ styleSettings \in {loadStyleSettings(items) : items \in StoredStyleItems}
  /\ LET s == createPlaceholdersFor([placeholders |-> EmptyMap, translated |-> {}],
                                    Translatable(1))
     IN /\ translationPlaceholders = s.placeholders
        /\ translated = s.translated
        /\ translationRequested = Range(Translatable(1))
  /\ observer = 0
  /\ connected = {}
  /\ observed = [o \in ObserverIds |-> {}]
  /\ startsAwaiting = 0
  /\ accumulationQueue = <<>>
  /\ queueTimeout = 0
  /\ timers = {}
  /\ contentBatchSize = DefaultContentBatchSize
  /\ requests = <<>>
  /\ handed = <<>>
  /\ discarded = {}
  /\ outdated = {}
  /\ evaluations = [e \in Elements |-> 0]
  /\ invocation = NoInvocation
  /\ activeTranslationTabs = EmptyRegistry
  /\ tabs = [id \in TabIds |-> NewTab]
  /\ toggles = <<>>
  /\ toggleLog = NoLog

\* one call of updateTranslation
update(originalText, translatedText) ==
  /\ translationPlaceholders' =
       updateTranslation(translationPlaceholders, originalText, translatedText)
  /\ UNCHANGED <<registryVars, invocation, page, isTranslationActive, observer, connected, observed,
                 startsAwaiting, accumulationQueue, queueTimeout, timers,
                 contentBatchSize, styleSettings, translationRequested, translated,
                 requests, handed, discarded, outdated, evaluations>>

RenderNext ==
  \E originalText \in RenderTexts : \E translatedText \in RenderResults :
    update(originalText, translatedText)

RenderSpec == RenderInit /\ [][RenderNext]_vars


(***************************************************************************)
(* The background script's batch handler, step by step.  One step is what  *)
(* runs without interruption: from an event (the message, a provider call  *)
(* settling, the sleep timer) through every promise reaction it sets off.  *)
(* invocation.calls[k] is the promise of the async callback for texts[k]:  *)
(* "notStarted", "pending", "fulfilled", or "rejected" (it threw a          *)
(* RateLimitError).  invocation.results[k] is what the provider call for   *)
(* texts[k] did, once it has settled.                                      *)
(***************************************************************************)
\* the texts lists of the translate_batch messages
RequestTexts == UNION {[1..n -> {Text, More}] : n \in 1..MaxRequestTexts}

\* settings.batchSize: what the options page stored, else the default
BackgroundBatchSizes ==
  {IF stored = 0 THEN BackgroundDefaultBatchSize ELSE stored :
     stored \in StoredBatchSizes}

\* what a provider call does: return a string, return undefined, or throw
\* an Error with a message
CallOutcomes ==
  {[kind |-> "ok", message |-> <<>>], [kind |-> "undefined", message |-> <<>>]}
    \cup {[kind |-> "error", message |-> msg] : msg \in ProviderErrors}

\* no provider call has settled for a text
NoResult == [kind |-> "none", message |-> <<>>]

\* the positions Array.prototype.slice(start, end) takes from a list of len
\* elements (begin and end count from 0 and may be negative)
slice(len, begin, end) ==
  LET from == IF begin < 0 THEN (IF len + begin < 0 THEN 0 ELSE len + begin)
              ELSE (IF begin > len THEN len ELSE begin)
      to == IF end < 0 THEN (IF len + end < 0 THEN 0 ELSE len + end)
            ELSE (IF end > len THEN len ELSE end)
  IN {k \in 1..len : from < k /\ k <= to}

\* `return translationMap` and the listener's .then(sendResponse)
return(inv) ==
  [inv EXCEPT !.pc = "returned", !.responded = TRUE, !.response = inv.translationMap,
              !.responses = @ + 1]

\* the for loop from its test `i < texts.length`, and what follows
\* `await Promise.all(promises)` when it resolves
RECURSIVE forLoop(_), afterPromiseAll(_)
forLoop(inv) ==
  IF inv.i < Len(inv.texts)
  THEN LET batch == slice(Len(inv.texts), inv.i, inv.i + inv.batchSize)
           started == [inv EXCEPT !.calls = [k \in DOMAIN inv.calls |->
                                               IF k \in batch THEN "pending"
                                               ELSE inv.calls[k]],
                                  !.promises = batch,
                                  !.pc = "awaitAll"]
       IN IF batch = {} THEN afterPromiseAll(started) ELSE started
  ELSE return(inv)

afterPromiseAll(inv) ==
  IF inv.i + inv.batchSize < Len(inv.texts)
  THEN [inv EXCEPT !.pc = "sleep"]
  ELSE forLoop([inv EXCEPT !.i = inv.i + inv.batchSize])

\* the catch after Promise.all going on with the loop instead of `break`
promiseAllRejected_noBreak(inv) == afterPromiseAll(inv)

\* Promise.all rejects with a RateLimitError: the catch and its `break`
promiseAllRejected(inv) == return(inv)

\* the translate_batch message arrives and the settings read resolves
batchReceived(texts, batchSize, apiKeySet) ==
  /\ invocation.pc = "idle"
  /\ LET inv == [invocation EXCEPT !.texts = texts, !.batchSize = batchSize,
                                   !.calls = [k \in DOMAIN texts |-> "notStarted"],
                                   !.results = [k \in DOMAIN texts |-> NoResult]]
     IN invocation' =
          IF ~apiKeySet
          THEN [inv EXCEPT !.pc = "threw", !.responded = TRUE, !.response = EmptyMap,
                           !.responses = @ + 1]
          ELSE forLoop(inv)
  /\ UNCHANGED <<contentVars, registryVars>>

\* the translate_batch message arrives from a sender without a tab id: the
\* listener answers {} at once and the handler is not called
senderWithoutTab(texts) ==
  /\ invocation.pc = "idle"
  /\ invocation' = [invocation EXCEPT !.pc = "noTab", !.texts = texts,
                                      !.responded = TRUE, !.response = EmptyMap,
                                      !.responses = @ + 1]
  /\ UNCHANGED <<contentVars, registryVars>>

\* the async callback writing translationMap[translatedText] = text
providerCallSettles_keyedByResult(k, outcome) ==
  /\ k \in DOMAIN invocation.calls
  /\ invocation.calls[k] = "pending"
  /\ LET text == invocation.texts[k]
         rateLimit == outcome.kind = "error" /\ IsRateLimit(outcome.message)
         translationMap ==
           IF outcome.kind = "ok"
           THEN (ProviderTranslation(text) :> text) @@ invocation.translationMap
           ELSE IF outcome.kind = "error"
           THEN (text :> FailSentinel(outcome.message)) @@ invocation.translationMap
           ELSE invocation.translationMap
         settled == [invocation EXCEPT
                       !.translationMap = translationMap,
                       !.calls[k] = IF rateLimit THEN "rejected" ELSE "fulfilled",
                       !.results[k] = outcome,
                       !.detected = @ \/ rateLimit]
         awaited == invocation.pc = "awaitAll" /\ k \in invocation.promises
     IN invocation' =
          IF awaited /\ rateLimit THEN promiseAllRejected(settled)
          ELSE IF awaited /\ \A j \in settled.promises : settled.calls[j] = "fulfilled"
          THEN afterPromiseAll(settled)
          ELSE settled
  /\ UNCHANGED <<contentVars, registryVars>>

\* the provider call for texts[k] settles: the rest of the async callback,
\* and of the handler if this settles Promise.all
providerCallSettles(k, outcome) ==
  /\ k \in DOMAIN invocation.calls
  /\ invocation.calls[k] = "pending"
  /\ LET text == invocation.texts[k]
         rateLimit == outcome.kind = "error" /\ IsRateLimit(outcome.message)
         translationMap ==
           IF outcome.kind = "ok"
           THEN (text :> ProviderTranslation(text)) @@ invocation.translationMap
           ELSE IF outcome.kind = "error"
           THEN (text :> FailSentinel(outcome.message)) @@ invocation.translationMap
           ELSE invocation.translationMap
         settled == [invocation EXCEPT
                       !.translationMap = translationMap,
                       !.calls[k] = IF rateLimit THEN "rejected" ELSE "fulfilled",
                       !.results[k] = outcome,
                       !.detected = @ \/ rateLimit]
         awaited == invocation.pc = "awaitAll" /\ k \in invocation.promises
     IN invocation' =
          IF awaited /\ rateLimit THEN promiseAllRejected(settled)
          ELSE IF awaited /\ \A j \in settled.promises : settled.calls[j] = "fulfilled"
          THEN afterPromiseAll(settled)
          ELSE settled
  /\ UNCHANGED <<contentVars, registryVars>>

\* the timer of `await sleep(delay)` fires
sleepResolves ==
  /\ invocation.pc = "sleep"
  /\ invocation.i > -MaxBackwardSteps
  /\ invocation' = forLoop([invocation EXCEPT !.i = invocation.i + invocation.batchSize])
  /\ UNCHANGED <<contentVars, registryVars>>

BatchInit == Init /\ page = <<Text, More>>

BatchNext ==
  \/ \E texts \in RequestTexts : \E batchSize \in BackgroundBatchSizes :
       \E apiKeySet \in BOOLEAN : batchReceived(texts, batchSize, apiKeySet)
  \/ \E texts \in RequestTexts : senderWithoutTab(texts)
  \/ \E k \in DOMAIN invocation.calls : \E outcome \in CallOutcomes :
       providerCallSettles(k, outcome)
  \/ sleepResolves

BatchSpec == BatchInit /\ [][BatchNext]_vars

\* every provider call settles and every sleep timer fires
FairBatchSpec ==
  /\ BatchSpec
  /\ WF_vars(\E k \in DOMAIN invocation.calls : \E outcome \in CallOutcomes :
               providerCallSettles(k, outcome))
  /\ WF_vars(sleepResolves)

(***************************************************************************)
(* The background script's registry and toggle, and what a toggle does in  *)
(* a tab: the injection of content.js and the lifecycle message.  Of the   *)
(* manager only the isTranslationActive flag is followed here, per tab;    *)
(* what start() and stop() do beyond it is the subject of Spec.  A tab's   *)
(* url is "https://" (a page scripts can be injected into), "chrome://"    *)
(* (a page toggleTranslationForTab refuses) or "restricted" (any other     *)
(* page chrome.scripting.executeScript is rejected for).                   *)
(***************************************************************************)
Urls == {"https://", "chrome://", "restricted"}

\* tab.url.startsWith('chrome://') || tab.url.startsWith('https://chrome.google.com')
IsSpecialPage(url) == url = "chrome://"

\* activeTranslationTabs[tabId] || false
isTranslating(tabId) ==
  tabId \in DOMAIN activeTranslationTabs /\ activeTranslationTabs[tabId]

\* the listener's get_tab_state case: the isTranslating it answers
get_tab_state(tabId) ==
  IF tabId # 0 THEN isTranslating(tabId) ELSE FALSE

\* activeTranslationTabs[tabId] = value
SetFlag(registry, tabId, value) ==
  [id \in DOMAIN registry \cup {tabId} |-> IF id = tabId THEN value ELSE registry[id]]

\* delete activeTranslationTabs[tabId]
DeleteFlag(registry, tabId) ==
  [id \in DOMAIN registry \ {tabId} |-> registry[id]]

\* content.js run in a page context without its `if (window.translationManager) return`
contentScript_noGuard(window) ==
  [translationManager |-> TRUE,
   listeners |-> window.listeners + 1,
   isTranslationActive |-> FALSE]

\* content.js run in a page context: the guard, the manager, the listener
contentScript(window) ==
  IF window.translationManager THEN window
  ELSE [translationManager |-> TRUE,
        listeners |-> window.listeners + 1,
        isTranslationActive |-> FALSE]

\* one call of the content script's onMessage listener: start() or stop(),
\* as far as the flag goes
onMessage(window, action) ==
  IF action = "start_translation" THEN [window EXCEPT !.isTranslationActive = TRUE]
  ELSE IF action = "stop_translation" THEN [window EXCEPT !.isTranslationActive = FALSE]
  ELSE window

\* a message reaching a page context: every registered listener is called
RECURSIVE dispatch(_, _, _)
dispatch(window, action, n) ==
  IF n = 0 THEN window ELSE dispatch(onMessage(window, action), action, n - 1)

\* the message a toggle call sends
Message(toggle) ==
  IF toggle.isCurrentlyTranslating THEN "stop_translation" ELSE "start_translation"

\* s without its k-th element
Remove(s, k) == SubSeq(s, 1, k - 1) \o SubSeq(s, k + 1, Len(s))

\* toggleTranslationForTab(tab) up to `await chrome.scripting.executeScript`;
\* tabId 0 stands for a tab object without an id
toggleTranslationForTab(tabId) ==
  /\ Len(toggles) < MaxToggles
  /\ toggleLog.commands < MaxCommands
  /\ toggleLog' = [toggleLog EXCEPT !.commands = @ + 1]
  /\ IF tabId = 0 \/ IsSpecialPage(tabs[tabId].url)
     THEN UNCHANGED toggles
     ELSE toggles' = Append(toggles,
                            [tabId |-> tabId,
                             isCurrentlyTranslating |-> isTranslating(tabId),
                             pc |-> "executeScript"])
  /\ UNCHANGED <<contentVars, invocation, activeTranslationTabs, tabs>>

\* executeScript resolves: content.js has run in the tab; the call goes on
\* to its sendMessage
executeScriptResolves(k) ==
  /\ k \in DOMAIN toggles
  /\ toggles[k].pc = "executeScript"
  /\ LET tabId == toggles[k].tabId
     IN /\ tabs[tabId].open
        /\ tabs[tabId].url = "https://"
        /\ tabs' = [tabs EXCEPT ![tabId].window = contentScript(@)]
        /\ activeTranslationTabs' =
             IF toggles[k].isCurrentlyTranslating THEN activeTranslationTabs
             ELSE SetFlag(activeTranslationTabs, tabId, TRUE)
        /\ toggles' = [toggles EXCEPT ![k].pc = "sendMessage"]
  /\ UNCHANGED <<contentVars, invocation, toggleLog>>

\* the catch of toggleTranslationForTab: the flag is set to false and the
\* error thrown on
catch(k) ==
  /\ activeTranslationTabs' = SetFlag(activeTranslationTabs, toggles[k].tabId, FALSE)
  /\ toggles' = Remove(toggles, k)

\* executeScript rejects: the tab is closed or shows a page that admits no script
executeScriptRejects(k) ==
  /\ k \in DOMAIN toggles
  /\ toggles[k].pc = "executeScript"
  /\ ~tabs[toggles[k].tabId].open \/ tabs[toggles[k].tabId].url # "https://"
  /\ catch(k)
  /\ UNCHANGED <<contentVars, invocation, tabs, toggleLog>>

\* the lifecycle message reaches the tab's page context
messageDelivered(k) ==
  /\ k \in DOMAIN toggles
  /\ toggles[k].pc = "sendMessage"
  /\ LET tabId == toggles[k].tabId
         window == tabs[tabId].window
     IN /\ tabs[tabId].open
        /\ window.listeners > 0
        /\ tabs' = [tabs EXCEPT ![tabId].window =
                      dispatch(window, Message(toggles[k]), window.listeners)]
        /\ toggleLog' = [toggleLog EXCEPT !.invoked[tabId] = window.listeners]
  /\ toggles' = [toggles EXCEPT ![k].pc = "delivered"]
  /\ UNCHANGED <<contentVars, invocation, activeTranslationTabs>>

\* chrome.tabs.sendMessage resolves: the call runs to its end
tabsSendMessageResolves(k) ==
  /\ k \in DOMAIN toggles
  /\ toggles[k].pc = "delivered"
  /\ activeTranslationTabs' =
       IF toggles[k].isCurrentlyTranslating
       THEN SetFlag(activeTranslationTabs, toggles[k].tabId, FALSE)
       ELSE activeTranslationTabs
  /\ toggles' = Remove(toggles, k)
  /\ toggleLog' = [toggleLog EXCEPT !.sent[toggles[k].tabId] =
                     Append(@, Message(toggles[k]))]
  /\ UNCHANGED <<contentVars, invocation, tabs>>

\* chrome.tabs.sendMessage rejects: the tab is closed or has no listener
tabsSendMessageRejects(k) ==
  /\ k \in DOMAIN toggles
  /\ toggles[k].pc = "sendMessage"
  /\ ~tabs[toggles[k].tabId].open \/ tabs[toggles[k].tabId].window.listeners = 0
  /\ catch(k)
  /\ UNCHANGED <<contentVars, invocation, tabs, toggleLog>>

\* the onRemoved listener without its `delete activeTranslationTabs[tabId]`
onRemoved_keepFlag(tabId) ==
  /\ tabs[tabId].open
  /\ tabs' = [tabs EXCEPT ![tabId].open = FALSE, ![tabId].window = NewWindow]
  /\ UNCHANGED <<contentVars, invocation, activeTranslationTabs, toggles, toggleLog>>

\* the chrome.tabs.onRemoved listener, for a tab the user closes
onRemoved(tabId) ==
  /\ tabs[tabId].open
  /\ tabs' = [tabs EXCEPT ![tabId].open = FALSE, ![tabId].window = NewWindow]
  /\ activeTranslationTabs' = DeleteFlag(activeTranslationTabs, tabId)
  /\ UNCHANGED <<contentVars, invocation, toggles, toggleLog>>

\* the tab loads a page: a new page context
navigate(tabId, url) ==
  /\ tabs[tabId].open
  /\ tabs' = [tabs EXCEPT ![tabId].url = url, ![tabId].window = NewWindow]
  /\ UNCHANGED <<contentVars, invocation, activeTranslationTabs, toggles, toggleLog>>

ToggleInit == Init /\ page = <<Text, More>>

ToggleNext ==
  \/ \E tabId \in TabIds \cup {0} : toggleTranslationForTab(tabId)
  \/ \E k \in DOMAIN toggles : executeScriptResolves(k)
  \/ \E k \in DOMAIN toggles : executeScriptRejects(k)
  \/ \E k \in DOMAIN toggles : messageDelivered(k)
  \/ \E k \in DOMAIN toggles : tabsSendMessageResolves(k)
  \/ \E k \in DOMAIN toggles : tabsSendMessageRejects(k)
  \/ \E tabId \in TabIds : onRemoved(tabId)
  \/ \E tabId \in TabIds : \E url \in Urls : navigate(tabId, url)

ToggleSpec == ToggleInit /\ [][ToggleNext]_vars

(***************************************************************************)
(* Properties                                                              *)
(***************************************************************************)
\* the elements of the batches handed to processQueue so far
HandedElements == UNION {Range(handed[k].elements) : k \in DOMAIN handed}

\* the batches a step hands to processQueue
NewBatches == SubSeq(handed', Len(handed) + 1, Len(handed'))

RECURSIVE Concat(_)
Concat(batches) ==
  IF batches = <<>> THEN <<>> ELSE Head(batches).elements \o Concat(Tail(batches))

\* the targets among entries that are in S, in entry order
RECURSIVE TargetsIn(_, _)
TargetsIn(entries, S) ==
  IF entries = <<>> THEN <<>>
  ELSE (IF Head(entries).target \in S THEN <<Head(entries).target>> ELSE <<>>)
       \o TargetsIn(Tail(entries), S)

\* the placeholder of text t shows v
Shows(placeholders, t, v) ==
  t \in DOMAIN placeholders /\ VisualState(placeholders[t]) = v

\* C1: once every start() has run to its end, an IntersectionObserver is
\* connected if and only if the session is Active (the claim, read at the
\* states where no start() is suspended at its settings read).
C1_ObserverIffActive ==
  startsAwaiting = 0 => (connected # {} <=> isTranslationActive)

\* C2: start() called while the session is Active changes nothing: no second
\* observer, no second registration, no second settings read.
C2_StartIdempotent ==
  [][(isTranslationActive /\ start) => UNCHANGED vars]_vars

\* C2 witness: the session is Active with its one observer, every element
\* registered with it; start() is callable here and leaves this state as it is.
C2_Witness ==
  /\ isTranslationActive
  /\ startsAwaiting = 0
  /\ connected = {observer}
  /\ observed[observer] = Elements
  /\ ENABLED start

\* C3: in every Idle state PendingSet is empty and no flush timer is pending,
\* and no element stop() discarded from PendingSet is in a batch handed to the
\* dispatcher.
C3_StopClearsPending ==
  /\ ~isTranslationActive => (accumulationQueue = <<>> /\ timers = {})
  /\ discarded \cap HandedElements = {}

\* C3 witness: stop() has discarded pending elements and cancelled their timer.
C3_Witness ==
  /\ ~isTranslationActive
  /\ discarded # {}
  /\ queueTimeout # 0

\* C4 as claimed: a response to a batch that stop() was called after is never
\* rendered.
C4_StoppedResponseDiscarded ==
  [][\A i \in DOMAIN requests : \A apiKeySet \in BOOLEAN :
       \A outcome \in Outcomes(requests[i].texts) :
         (/\ requests[i].stoppedSince
          /\ responseArrives(i, translate_batch(requests[i].texts, apiKeySet, outcome)))
         => UNCHANGED translationPlaceholders]_vars

\* C4 amended: a response to a batch that stop() was called after is not
\* rendered if the session is still Idle when it arrives.
C4_IdleResponseDiscarded ==
  [][\A i \in DOMAIN requests : \A apiKeySet \in BOOLEAN :
       \A outcome \in Outcomes(requests[i].texts) :
         (/\ requests[i].stoppedSince
          /\ ~isTranslationActive
          /\ responseArrives(i, translate_batch(requests[i].texts, apiKeySet, outcome)))
         => UNCHANGED translationPlaceholders]_vars

\* C4 witness: stop() was called after a batch's placeholders were created,
\* the session is Idle, the response is about to arrive and the placeholders
\* are loading.
C4_Witness ==
  \E i \in DOMAIN requests :
    /\ requests[i].state = "sent"
    /\ requests[i].stoppedSince
    /\ ~isTranslationActive
    /\ \A k \in DOMAIN requests[i].texts :
         Shows(translationPlaceholders, requests[i].texts[k], "loading")

\* C5: while the session is Idle no placeholder changes its visual state.
C5_IdleNoVisualChange ==
  [][~isTranslationActive =>
       /\ DOMAIN translationPlaceholders' = DOMAIN translationPlaceholders
       /\ \A t \in DOMAIN translationPlaceholders :
            VisualState(translationPlaceholders'[t]) =
              VisualState(translationPlaceholders[t])]_vars

\* C6: when sendMessage rejects for a batch, the placeholder of every text of
\* the batch shows the error state, its text is the communication-error
\* sentinel carrying the rejection message, and the Active flag is unchanged.
C6_RejectShowsError ==
  [][\A i \in DOMAIN requests : \A message \in TransportErrors :
       sendMessageRejects(i, message) =>
         /\ \A k \in DOMAIN requests[i].texts :
              LET t == requests[i].texts[k]
              IN /\ Shows(translationPlaceholders', t, "error")
                 /\ translationPlaceholders'[t].placeholder.innerText =
                      CommSentinel(message)
                 /\ \E n \in DOMAIN translationPlaceholders'[t].placeholder.innerText :
                      translationPlaceholders'[t].placeholder.innerText[n] = message
         /\ isTranslationActive' = isTranslationActive]_vars

\* C6 witness: a batch of two different texts was rejected while Active and
\* both placeholders show the error.
C6_Witness ==
  \E i \in DOMAIN requests : \E message \in TransportErrors :
    /\ requests[i].state = "settled"
    /\ isTranslationActive
    /\ Cardinality(Range(requests[i].texts)) = 2
    /\ \A k \in DOMAIN requests[i].texts :
         /\ Shows(translationPlaceholders, requests[i].texts[k], "error")
         /\ translationPlaceholders[requests[i].texts[k]].placeholder.innerText =
              CommSentinel(message)

\* C7: when the answer to a batch arrives while Active, the placeholder of
\* every text whose translation failed (the handler threw for want of an API
\* key, or the provider call for that text threw) shows the error state.
C7_FailureShowsError ==
  [][\A i \in DOMAIN requests : \A apiKeySet \in BOOLEAN :
       \A outcome \in Outcomes(requests[i].texts) :
         (/\ isTranslationActive
          /\ responseArrives(i, translate_batch(requests[i].texts, apiKeySet, outcome)))
         => \A t \in Range(requests[i].texts) :
              (~apiKeySet \/ outcome[t] = "error")
                => Shows(translationPlaceholders', t, "error")]_vars

\* C8: every batch handed to the dispatcher has between 1 and maxBatchSize
\* elements, maxBatchSize being the batch size in force at that moment.
C8_BatchSizeBounds ==
  \A k \in DOMAIN handed :
    /\ 1 <= Len(handed[k].elements)
    /\ Len(handed[k].elements) <= handed[k].maxBatchSize

\* C9: a visibility callback that adds n > 0 elements cuts full batches of
\* exactly maxBatchSize elements, oldest first, one request each, until fewer
\* than maxBatchSize remain; into an empty PendingSet that is floor(n /
\* maxBatchSize) batches, and for an exact multiple PendingSet ends empty and
\* no timer is started.
C9_AdmissionRule ==
  [][\A o \in ObserverIds : \A entries \in EntryLists(observed[o]) :
       (/\ isTranslationActive
        /\ observed' # observed
        /\ handleIntersection(o, entries)) =>
         LET added == translationRequested' \ translationRequested
             n == Cardinality(added)
         IN /\ n = 0 => NewBatches = <<>>
            /\ n > 0 =>
                 /\ \A k \in DOMAIN NewBatches :
                      /\ Len(NewBatches[k].elements) = contentBatchSize
                      /\ NewBatches[k].cause = "size"
                 /\ Len(requests') = Len(requests) + Len(NewBatches)
                 /\ \A k \in DOMAIN NewBatches :
                      requests'[Len(requests) + k].elements = NewBatches[k].elements
                 /\ Len(accumulationQueue') < contentBatchSize
                 /\ Concat(NewBatches) \o accumulationQueue' =
                      accumulationQueue \o TargetsIn(entries, added)
                 /\ accumulationQueue = <<>> =>
                      Len(NewBatches) = n \div contentBatchSize
                 /\ (accumulationQueue = <<>> /\ n % contentBatchSize = 0) =>
                      /\ accumulationQueue' = <<>>
                      /\ timers' = timers
                      /\ queueTimeout' = queueTimeout]_vars

\* C9 witness: two elements arrived in one callback, an exact multiple of
\* maxBatchSize: two full batches were cut, PendingSet is empty and no timer
\* was ever started.
C9_Witness ==
  /\ isTranslationActive
  /\ Len(handed) = 2
  /\ \A k \in DOMAIN handed :
       /\ handed[k].cause = "size"
       /\ Len(handed[k].elements) = handed[k].maxBatchSize
  /\ Cardinality(UNION {observed[o] : o \in connected}) = 0
  /\ Cardinality(connected) = 1
  /\ accumulationQueue = <<>>
  /\ queueTimeout = 0

\* C10: arrivals that leave fewer than maxBatchSize elements pending dispatch
\* nothing and leave a flush timer pending; the timer firing on a non-empty
\* PendingSet dispatches exactly one batch with all of it and empties it; and
\* a non-empty PendingSet is eventually emptied.
C10_FlushRule ==
  /\ [][\A o \in ObserverIds : \A entries \in EntryLists(observed[o]) :
          (/\ isTranslationActive
           /\ translationRequested' # translationRequested
           /\ handleIntersection(o, entries)
           /\ Len(accumulationQueue)
                + Cardinality(translationRequested' \ translationRequested)
                < contentBatchSize)
          => /\ NewBatches = <<>>
             /\ requests' = requests
             /\ timers' # {}]_vars
  /\ [][\A t \in timers :
          (flushTimer(t) /\ accumulationQueue # <<>>)
          => /\ Len(NewBatches) = 1
             /\ NewBatches[1].elements = accumulationQueue
             /\ Len(requests') = Len(requests) + 1
             /\ requests'[Len(requests')].elements = accumulationQueue
             /\ accumulationQueue' = <<>>
             /\ timers' = timers \ {t}]_vars
  /\ [](accumulationQueue # <<>> => timers # {})
  /\ (accumulationQueue # <<>>) ~> (accumulationQueue = <<>>)

\* C10 witness: a batch smaller than maxBatchSize was flushed by the timer.
C10_Witness ==
  /\ isTranslationActive
  /\ accumulationQueue = <<>>
  /\ \E k \in DOMAIN handed :
       /\ handed[k].cause = "flush"
       /\ Len(handed[k].elements) < handed[k].maxBatchSize

\* C11: at most one flush timer is pending, and a pending flush timer is
\* never one that was set before the most recent arrival of a new element:
\* every arrival replaces it with a fresh one.  All timers are set with the
\* same FLUSH_DELAY, so a timer set before an arrival comes due less than one
\* full delay after that arrival.
C11_Debounce ==
  /\ Cardinality(timers) <= 1
  /\ outdated = {}

\* the elements of the translate_batch requests sent so far
RequestedElements == UNION {Range(requests[k].elements) : k \in DOMAIN requests}

\* the elements that are in PendingSet or were handed over in a batch
Admitted == Range(accumulationQueue) \cup HandedElements

\* C12: an element whose trimmed text has 3 or fewer characters is never in
\* PendingSet, in a batch or in a request; and an element is admitted only if
\* its trimmed text has at least 4 characters and it carried neither the
\* requested nor the translated flag before.
C12_ShortTextNeverQueued ==
  /\ [](\A e \in Elements :
          Len(Trim(innerText(e))) <= MinTextLength =>
            /\ e \notin Admitted
            /\ e \notin RequestedElements
            /\ e \notin translationRequested)
  /\ [][\A e \in Admitted' \ Admitted :
          /\ Len(Trim(innerText(e))) >= MinTextLength + 1
          /\ e \notin translationRequested
          /\ e \notin translated
          /\ e \in translationRequested']_vars

\* C12 witness: an element with the text " Hi " was reported as intersecting
\* and unobserved without being queued, while the element after it was
\* admitted.
C12_Witness ==
  /\ isTranslationActive
  /\ observer \in connected
  /\ \E e \in Elements :
       /\ Len(innerText(e)) > MinTextLength
       /\ Len(Trim(innerText(e))) <= MinTextLength
       /\ e \notin observed[observer]
       /\ e \notin translationRequested
  /\ \E e \in Elements : e \in Admitted

\* C13: within a session each element is evaluated by the visibility
\* callback at most once, and an element that was evaluated is observed by no
\* connected observer any more, so no later crossing can evaluate it again.
C13_EvaluatedOncePerSession ==
  \A e \in Elements :
    /\ evaluations[e] <= 1
    /\ (isTranslationActive /\ evaluations[e] = 1) =>
         \A o \in connected : e \notin observed[o]

\* how many times element e occurs in the sequence of elements s
RECURSIVE Occurrences(_, _)
Occurrences(s, e) ==
  IF s = <<>> THEN 0
  ELSE (IF Head(s) = e THEN 1 ELSE 0) + Occurrences(Tail(s), e)

\* how many times element e occurs in the batches dispatched as requests
RECURSIVE DispatchCount(_, _)
DispatchCount(rs, e) ==
  IF rs = <<>> THEN 0
  ELSE Occurrences(Head(rs).elements, e) + DispatchCount(Tail(rs), e)

\* C14: an element is in PendingSet at most once, is never both in PendingSet
\* and in a dispatched batch, and is in at most one dispatched batch over the
\* whole life of the page; its requested flag, once set, is never cleared.
C14_AtMostOneBatch ==
  /\ [](\A e \in Elements :
          /\ Occurrences(accumulationQueue, e) <= 1
          /\ Occurrences(accumulationQueue, e) + DispatchCount(requests, e) <= 1
          /\ Occurrences(accumulationQueue, e) + DispatchCount(handed, e) <= 1
          /\ Occurrences(accumulationQueue, e) + DispatchCount(requests, e) = 1
               => e \in translationRequested)
  /\ [][translationRequested \subseteq translationRequested']_vars

\* C14 witness: an element was dispatched, the session was stopped and
\* started again, and the new session's observer has reported the element
\* once more; it is in PendingSet of no session and in one batch.
C14_Witness ==
  /\ isTranslationActive
  /\ startsAwaiting = 0
  /\ connected = {observer}
  /\ \E i \in DOMAIN requests : \E e \in Range(requests[i].elements) :
       /\ requests[i].stoppedSince
       /\ evaluations[e] = 1
       /\ e \notin observed[observer]
       /\ DispatchCount(requests, e) = 1

\* the requests a step sends
NewRequests == SubSeq(requests', Len(requests) + 1, Len(requests'))

\* C15: every text of a request had a placeholder when the request was sent;
\* and in the step that sends requests, a loading placeholder is created for
\* exactly the batch texts that had none, the others being left as they were.
C15_PlaceholdersBeforeSend ==
  /\ [](\A i \in DOMAIN requests :
          /\ requests[i].placeholdersReady
          /\ Range(requests[i].texts) \subseteq DOMAIN translationPlaceholders)
  /\ [][LET sent == UNION {Range(NewRequests[k].texts) : k \in DOMAIN NewRequests}
        IN /\ DOMAIN translationPlaceholders' =
                DOMAIN translationPlaceholders \cup sent
           /\ \A t \in sent \ DOMAIN translationPlaceholders :
                /\ translationPlaceholders'[t].placeholder = LoadingNode
                /\ Shows(translationPlaceholders', t, "loading")
           /\ \A t \in sent \cap DOMAIN translationPlaceholders :
                translationPlaceholders'[t] = translationPlaceholders[t]]_vars

\* C15 witness: a request with two different texts is in flight, sent after
\* both got their placeholder, and both placeholders are loading.
C15_Witness ==
  \E i \in DOMAIN requests :
    /\ requests[i].state = "sent"
    /\ requests[i].placeholdersReady
    /\ Cardinality(Range(requests[i].texts)) = 2
    /\ \A t \in Range(requests[i].texts) : Shows(translationPlaceholders, t, "loading")

\* the first element with text t in the sequence of elements s
FirstWithText(s, t) ==
  s[CHOOSE k \in DOMAIN s :
      /\ innerText(s[k]) = t
      /\ \A j \in 1..(k - 1) : innerText(s[j]) # t]

\* C16: each source text has at most one placeholder node, inserted after
\* the first element processed with that text (the elements with a node
\* after them are those flagged translated); a later element with the same
\* text gets none; and no step removes an entry or gives it another element.
C16_OnePlaceholderPerText ==
  /\ [](/\ \A t \in DOMAIN translationPlaceholders :
             /\ {e \in translated : innerText(e) = t} =
                  {translationPlaceholders[t].originalElement}
             /\ translationPlaceholders[t].originalElement =
                  FirstWithText(Concat(requests), t)
        /\ \A e \in translated : innerText(e) \in DOMAIN translationPlaceholders)
  /\ [][\A t \in DOMAIN translationPlaceholders :
          /\ t \in DOMAIN translationPlaceholders'
          /\ translationPlaceholders'[t].originalElement =
               translationPlaceholders[t].originalElement]_vars

\* C16 witness: two elements with the same text were both dispatched; there
\* is one placeholder, after the first of them, and none after the second.
C16_Witness ==
  \E e1, e2 \in RequestedElements :
    /\ e1 < e2
    /\ innerText(e1) = innerText(e2)
    /\ DOMAIN translationPlaceholders = {innerText(e1)}
    /\ translationPlaceholders[innerText(e1)].originalElement = e1
    /\ translated = {e1}

\* C17: when a response arrives while the session is Active, the placeholder
\* of every key of the TranslationMap shows the mapped value, the placeholder
\* of every other text (of the batch or not) is left as it was, loading if it
\* was loading, and no request is sent.
C17_SuccessRendersKeys ==
  [][\A i \in DOMAIN requests : \A apiKeySet \in BOOLEAN :
       \A outcome \in Outcomes(requests[i].texts) :
         LET answer == translate_batch(requests[i].texts, apiKeySet, outcome)
         IN (isTranslationActive /\ responseArrives(i, answer)) =>
              /\ DOMAIN translationPlaceholders' = DOMAIN translationPlaceholders
              /\ \A t \in DOMAIN answer :
                   /\ translationPlaceholders'[t].placeholder.innerText = answer[t]
                   /\ translationPlaceholders'[t].placeholder.spinner = FALSE
                   /\ ~Shows(translationPlaceholders', t, "loading")
              /\ \A t \in DOMAIN translationPlaceholders \ DOMAIN answer :
                   translationPlaceholders'[t] = translationPlaceholders[t]
              /\ \A t \in Range(requests[i].texts) \ DOMAIN answer :
                   Shows(translationPlaceholders, t, "loading")
                     => Shows(translationPlaceholders', t, "loading")
              /\ Len(requests') = Len(requests)]_vars

\* C17 witness: the answer to a batch of two texts arrived while Active with
\* one of them as its only key: that placeholder shows the translation, the
\* other is still loading.
C17_Witness ==
  \E i \in DOMAIN requests : \E t1, t2 \in Range(requests[i].texts) :
    /\ requests[i].state = "settled"
    /\ isTranslationActive
    /\ Len(requests) = 1
    /\ t1 # t2
    /\ Shows(translationPlaceholders, t1, "done")
    /\ translationPlaceholders[t1].placeholder.innerText = ProviderTranslation(t1)
    /\ Shows(translationPlaceholders, t2, "loading")

\* C18: update is last-write-wins: for every text and any two results, the
\* placeholders (text, class and every style property) after update(text, r1)
\* and then update(text, r2) are those after update(text, r2) alone; and
\* update creates no placeholder.
C18_LastWriteWins ==
  \A originalText \in RenderTexts : \A r1, r2 \in RenderResults :
    LET first == updateTranslation(translationPlaceholders, originalText, r1)
    IN /\ DOMAIN first = DOMAIN translationPlaceholders
       /\ updateTranslation(first, originalText, r2) =
            updateTranslation(translationPlaceholders, originalText, r2)

\* every styleSettings loadSettings can assign
AllStyleSettings == {loadStyleSettings(items) : items \in StoredStyleItems}

\* style differs from before in no property outside props, and has what
\* source says in every property of source
Applies(style, before, source) ==
  /\ \A prop \in DOMAIN source : style[prop] = source[prop]
  /\ \A prop \in StyleProps \ (DOMAIN source \cup {"marginTop", "paddingLeft"}) :
       style[prop] = before[prop]

\* C19: update applies exactly one style policy: the fixed error style for a
\* result with an error-sentinel prefix, whatever the style settings; else
\* the original element's computed style if `match original` is set; else
\* the preset or custom style.  The properties the policy does not name stay
\* as they were, and an error result renders the same under every setting.
C19_StylePolicy ==
  \A originalText \in DOMAIN translationPlaceholders : \A r \in RenderResults :
    LET entry == translationPlaceholders[originalText]
        before == entry.placeholder.style
        node == updateTranslation(translationPlaceholders, originalText, r)
                  [originalText].placeholder
        computedStyle == ComputedStyle(entry.originalElement)
    IN /\ node.innerText = r
       /\ IF StartsWith(r, FailPrefix) \/ StartsWith(r, CommPrefix)
          THEN /\ Applies(node.style, before, ErrorStyle)
               /\ \A settings \in AllStyleSettings : render(entry, r, settings) = node
          ELSE IF styleSettings.match
          THEN Applies(node.style, before,
                       [prop \in propsToCopy |-> computedStyle[prop]]
                         @@ [borderLeft |-> Border(computedStyle.color)])
          ELSE Applies(node.style, before, styleSettings.style)

\* C19 witness: under `match original` one placeholder shows an error in the
\* error style and another a translation in its element's own style.
C19_Witness ==
  /\ styleSettings.match
  /\ \E t1, t2 \in DOMAIN translationPlaceholders :
       /\ Shows(translationPlaceholders, t1, "error")
       /\ translationPlaceholders[t1].placeholder.style.color = ErrorStyle.color
       /\ Shows(translationPlaceholders, t2, "done")
       /\ translationPlaceholders[t2].placeholder.style.color =
            ComputedStyle(translationPlaceholders[t2].originalElement).color
       /\ translationPlaceholders[t2].placeholder.style.borderLeft # ErrorStyle.borderLeft

\* C20: once a provider error classified as rate-limit or quota has been
\* detected in a sub-batch, the handler has left its loop, and no provider
\* call that had not been started is started afterwards: the texts of every
\* later sub-batch stay without a call.
C20_RateLimitStopsLaterSubBatches ==
  /\ [](invocation.detected => invocation.pc = "returned")
  /\ [][invocation.detected =>
          \A k \in DOMAIN invocation.calls :
            invocation.calls[k] = "notStarted" => invocation'.calls[k] = "notStarted"]_vars

\* C20 witness: a request of three texts handled in sub-batches of two; a
\* call of the first sub-batch met a rate-limit error, both calls have
\* settled, the response is sent and the third text never got a call.
C20_Witness ==
  /\ invocation.detected
  /\ invocation.responded
  /\ Len(invocation.texts) = MaxRequestTexts
  /\ invocation.batchSize = MaxRequestTexts - 1
  /\ \E k \in invocation.promises : invocation.calls[k] = "rejected"
  /\ \A k \in invocation.promises : invocation.calls[k] # "pending"
  /\ \A k \in DOMAIN invocation.calls \ invocation.promises :
       invocation.calls[k] = "notStarted"
  /\ DOMAIN invocation.calls # invocation.promises

\* C21: when the handler answers after a rate-limit abort, every text of the
\* request whose provider call has not completed (never started, or still
\* pending) is a key of the returned TranslationMap with an error-sentinel
\* value, so that the content script renders its placeholder as an error.
C21_AbortedTextsAreErrors ==
  [][(/\ ~invocation.responded
      /\ invocation'.responded
      /\ invocation'.detected) =>
       \A k \in DOMAIN invocation'.texts :
         invocation'.calls[k] \in {"notStarted", "pending"} =>
           /\ invocation'.texts[k] \in DOMAIN invocation'.response
           /\ IsErrorSentinel(invocation'.response[invocation'.texts[k]])]_vars

\* the provider errors that carry a rate-limit or quota signal
RateLimitErrors == ProviderErrors \ {OrdinaryError}

\* the positions of the request's texts whose provider call ended as kind
Ended(kind) ==
  {k \in DOMAIN invocation.results : invocation.results[k].kind = kind}

ToggleStep(k) ==
  \/ executeScriptResolves(k)
  \/ executeScriptRejects(k)
  \/ messageDelivered(k)
  \/ tabsSendMessageResolves(k)
  \/ tabsSendMessageRejects(k)

\* tab id's registry entry and page context are as they were
TabUntouched(id) ==
  /\ id \in DOMAIN activeTranslationTabs' <=> id \in DOMAIN activeTranslationTabs
  /\ isTranslating(id)' = isTranslating(id)
  /\ tabs'[id] = tabs[id]

\* no two neighbours in the sequence of messages s are the same
Alternates(s) == \A n \in 1..(Len(s) - 1) : s[n] # s[n + 1]

\* C23 (tab-specific): no step of a toggle for one tab changes the registry
\* entry or the page context of another tab.
C23_TabSpecific ==
  /\ [][\A tabId \in TabIds :
          toggleTranslationForTab(tabId) => \A id \in TabIds : TabUntouched(id)]_vars
  /\ [][\A k \in DOMAIN toggles :
          ToggleStep(k) => \A id \in TabIds \ {toggles[k].tabId} : TabUntouched(id)]_vars

\* C23: the toggle is tab-specific, and the toggles completed on a tab send
\* start_translation and stop_translation in alternation.
C23_TabSpecificAlternating ==
  /\ C23_TabSpecific
  /\ [](\A id \in TabIds : Alternates(toggleLog.sent[id]))

\* C24: closing a tab removes its entry from the registry and leaves the
\* entry and the page of every other tab as they were; from then on a state
\* query for the closed tab's id answers "not translating", and a toggle
\* called for that id finds it not translating, so takes the branch that
\* sends start_translation.
C24_ClosedTabForgotten ==
  /\ [][\A tabId \in TabIds :
          onRemoved(tabId) =>
            /\ tabId \notin DOMAIN activeTranslationTabs'
            /\ ~get_tab_state(tabId)'
            /\ \A id \in TabIds \ {tabId} : TabUntouched(id)]_vars
  /\ [](\A id \in TabIds : ~tabs[id].open => ~get_tab_state(id))
  /\ [][\A tabId \in TabIds :
          (/\ ~tabs[tabId].open
           /\ toggleTranslationForTab(tabId)
           /\ Len(toggles') = Len(toggles) + 1)
          => Message(toggles'[Len(toggles')]) = "start_translation"]_vars

\* C24 witness: tab 1 was being translated and was closed while tab 2 is
\* being translated; tab 1 has no entry, tab 2 has its own, and a toggle
\* called for tab 1 since is on the branch that sends start_translation.
C24_Witness ==
  /\ ~tabs[1].open
  /\ toggleLog.sent[1] = <<"start_translation">>
  /\ 1 \notin DOMAIN activeTranslationTabs
  /\ tabs[2].open
  /\ isTranslating(2)
  /\ tabs[2].window.isTranslationActive
  /\ \E k \in DOMAIN toggles :
       /\ toggles[k].tabId = 1
       /\ Message(toggles[k]) = "start_translation"

\* C25 as claimed: when the response to a dispatched batch is processed (it
\* arrives while the session is Active), a lookup is attempted for each text
\* of the batch, whether or not the TranslationMap has the text as a key.
C25_EveryTextLookedUp ==
  [][\A i \in DOMAIN requests :
       (/\ isTranslationActive
        /\ requests[i].state = "sent"
        /\ requests'[i].state = "settled")
       => Range(requests[i].texts) \subseteq requests'[i].lookups]_vars

\* C25 amended: when the response to a dispatched batch is processed, a
\* lookup is attempted for each key of the TranslationMap and for nothing
\* else, so a text of the batch is looked up if and only if the map has it as
\* a key, and the placeholder found shows the mapped value; a response that
\* arrives while the session is Idle is not processed and nothing is looked
\* up; when the request is rejected, every text of the batch is looked up.
C25_EveryKeyLookedUp ==
  /\ [][\A i \in DOMAIN requests : \A apiKeySet \in BOOLEAN :
          \A outcome \in Outcomes(requests[i].texts) :
            LET answer == translate_batch(requests[i].texts, apiKeySet, outcome)
            IN responseArrives(i, answer) =>
                 /\ isTranslationActive =>
                      /\ requests'[i].lookups = DOMAIN answer
                      /\ \A t \in Range(requests[i].texts) :
                           t \in requests'[i].lookups <=> t \in DOMAIN answer
                      /\ \A t \in requests'[i].lookups :
                           translationPlaceholders'[t].placeholder.innerText = answer[t]
                 /\ ~isTranslationActive =>
                      /\ requests'[i].lookups = {}
                      /\ translationPlaceholders' = translationPlaceholders]_vars
  /\ [][\A i \in DOMAIN requests : \A message \in TransportErrors :
          sendMessageRejects(i, message) =>
            requests'[i].lookups = Range(requests[i].texts)]_vars

\* C25 witness: the response to a batch of two texts was processed while
\* Active; its map had one of them as a key, and that one alone was looked up.
C25_Witness ==
  \E i \in DOMAIN requests :
    /\ requests[i].state = "settled"
    /\ isTranslationActive
    /\ Cardinality(Range(requests[i].texts)) = 2
    /\ Cardinality(requests[i].lookups) = 1
    /\ \E t \in requests[i].lookups : Shows(translationPlaceholders, t, "done")
    /\ \E t \in Range(requests[i].texts) \ requests[i].lookups :
         Shows(translationPlaceholders, t, "loading")

\* the TranslationMaps the background script can answer a request with
Answers(texts) ==
  {translate_batch(texts, apiKeySet, outcome) :
     apiKeySet \in BOOLEAN, outcome \in Outcomes(texts)}

\* the placeholders after a response with the map a and then one with the
\* map b have been processed, the session being Active
After(a, b) ==
  updateAll(updateAll(translationPlaceholders, DOMAIN a, a), DOMAIN b, b)

\* C26: when two batches are in flight at the same time while the session is
\* Active, the state of every placeholder after both responses have been
\* processed is the same for the two orders of arrival.
C26_ArrivalOrderIrrelevant ==
  isTranslationActive =>
    \A i, j \in DOMAIN requests :
      (i < j /\ requests[i].state = "sent" /\ requests[j].state = "sent") =>
        \A a \in Answers(requests[i].texts) : \A b \in Answers(requests[j].texts) :
          After(a, b) = After(b, a)

\* C27: a page context has at most one manager and one lifecycle listener,
\* both or neither; injecting content.js into a context that has them changes
\* nothing in it, the session state included; and a lifecycle message that
\* reaches a context calls start() or stop() exactly once.
C27_OneManagerOneListener ==
  /\ [](\A id \in TabIds :
          /\ tabs[id].window.listeners <= 1
          /\ tabs[id].window.translationManager <=> tabs[id].window.listeners = 1)
  /\ [][\A k \in DOMAIN toggles :
          (executeScriptResolves(k) /\ tabs[toggles[k].tabId].window.translationManager)
          => tabs'[toggles[k].tabId].window = tabs[toggles[k].tabId].window]_vars
  /\ [][\A k \in DOMAIN toggles :
          messageDelivered(k) =>
            /\ toggleLog'.invoked[toggles[k].tabId] = 1
            /\ tabs'[toggles[k].tabId].window =
                 onMessage(tabs[toggles[k].tabId].window, Message(toggles[k]))]_vars

\* C27 witness: a tab whose session is Active has had content.js injected a
\* second time, by the toggle that is about to send stop_translation; it has
\* one manager, one listener, and its session is still Active.
C27_Witness ==
  \E k \in DOMAIN toggles :
    /\ toggles[k].pc = "sendMessage"
    /\ Message(toggles[k]) = "stop_translation"
    /\ toggleLog.sent[toggles[k].tabId] = <<"start_translation">>
    /\ tabs[toggles[k].tabId].window =
         [translationManager |-> TRUE, listeners |-> 1, isTranslationActive |-> TRUE]

\* the batches the dispatcher can be handed: the elements of the page, in
\* any order, none twice
Batches ==
  {b \in UNION {[1..n -> Elements] : n \in 1..Cardinality(Elements)} :
     \A k, n \in DOMAIN b : k # n => b[k] # b[n]}

\* the texts of a batch: one per element, in batch order
TextsOf(batch) == [n \in DOMAIN batch |-> innerText(batch[n])]

\* C28: a batch handed to the dispatcher while the session is Active produces
\* exactly one translate_batch request, whose texts are the texts of the
\* batch's elements, one per element in batch order, the same text as often
\* as it occurs; a batch handed over while the session is Idle produces none.
\* Every step that hands over batches sends one request per batch, in order.
C28_OneRequestPerBatch ==
  /\ [](\A batch \in Batches :
          LET after == processQueue(Manager, batch, "flush").requests
          IN IF isTranslationActive
             THEN /\ Len(after) = Len(requests) + 1
                  /\ SubSeq(after, 1, Len(requests)) = requests
                  /\ after[Len(after)].elements = batch
                  /\ after[Len(after)].texts = TextsOf(batch)
                  /\ Len(after[Len(after)].texts) = Len(batch)
             ELSE after = requests)
  /\ [](\A i \in DOMAIN requests : requests[i].texts = TextsOf(requests[i].elements))
  /\ [][/\ Len(NewRequests) = Len(NewBatches)
        /\ \A k \in DOMAIN NewBatches :
             NewRequests[k].elements = NewBatches[k].elements
        /\ NewRequests # <<>> => isTranslationActive]_vars

\* C28 witness: one batch of two elements with the same text was dispatched
\* as one request that carries the text twice.
C28_Witness ==
  /\ Len(handed) = 1
  /\ Len(requests) = 1
  /\ requests[1].elements = <<1, 2>>
  /\ requests[1].texts = <<Text, Text>>
  /\ handed[1].elements = requests[1].elements

\* C29: stop() leaves the Map of placeholders, every placeholder node and the
\* requested and translated flags of every element as they are, and stop()
\* on an Idle session changes nothing.
C29_StopKeepsTranslations ==
  [][stop =>
       /\ translationPlaceholders' = translationPlaceholders
       /\ translationRequested' = translationRequested
       /\ translated' = translated
       /\ ~isTranslationActive => UNCHANGED vars]_vars

\* C29 witness: the session was stopped with a translation rendered and an
\* element pending; the translation is still shown, the flags are still set.
C29_Witness ==
  /\ ~isTranslationActive
  /\ discarded # {}
  /\ discarded \subseteq translationRequested
  /\ translated # {}
  /\ \E t \in DOMAIN translationPlaceholders :
       /\ Shows(translationPlaceholders, t, "done")
       /\ translationPlaceholders[t].placeholder.innerText = ProviderTranslation(t)

\* C30: whenever a flush timer is pending, PendingSet is not empty.
C30_TimerImpliesPending ==
  timers # {} => accumulationQueue # <<>>

\* C31: an element stop() discarded from PendingSet keeps its requested flag;
\* a later start() observes it again, but it is never in PendingSet, in a
\* batch or in a request again, and it never gets a placeholder node.
C31_DiscardedNeverTranslated ==
  /\ [](/\ discarded \subseteq translationRequested
        /\ discarded \cap Range(accumulationQueue) = {}
        /\ discarded \cap HandedElements = {}
        /\ discarded \cap RequestedElements = {}
        /\ discarded \cap translated = {}
        /\ \A t \in DOMAIN translationPlaceholders :
             translationPlaceholders[t].originalElement \notin discarded)
  /\ [][\A storedBatchSize \in StoredBatchSizes :
          startResume(storedBatchSize) => discarded \subseteq observed'[observer']]_vars

\* C31 witness: an element was pending when the session was stopped; the
\* session was started again and its observer has reported the element once
\* more: it is unobserved again, flagged requested, and neither pending nor
\* dispatched nor given a placeholder.
C31_Witness ==
  /\ isTranslationActive
  /\ startsAwaiting = 0
  /\ connected = {observer}
  /\ \E e \in discarded :
       /\ evaluations[e] = 1
       /\ e \notin observed[observer]
       /\ e \in translationRequested
       /\ e \notin Admitted
       /\ e \notin translated

\* C32: whether a successful response is rendered depends only on the Active
\* flag at the moment it arrives: arriving while Active, every key of the map
\* that has a placeholder is rendered, also for a batch dispatched before a
\* stop() that a later start() followed; arriving while Idle, nothing is.
C32_RenderedIffActiveAtArrival ==
  [][\A i \in DOMAIN requests : \A apiKeySet \in BOOLEAN :
       \A outcome \in Outcomes(requests[i].texts) :
         LET answer == translate_batch(requests[i].texts, apiKeySet, outcome)
         IN responseArrives(i, answer) =>
              /\ isTranslationActive =>
                   \A t \in DOMAIN answer \cap DOMAIN translationPlaceholders :
                     /\ translationPlaceholders'[t].placeholder.innerText = answer[t]
                     /\ ~Shows(translationPlaceholders', t, "loading")
              /\ ~isTranslationActive =>
                   translationPlaceholders' = translationPlaceholders]_vars

\* C32 witness: a batch was dispatched, stop() was called, a later start() has
\* run to its end, and the response is about to arrive in the Active session
\* with the placeholders of the batch still loading.
C32_Witness ==
  \E i \in DOMAIN requests :
    /\ requests[i].state = "sent"
    /\ requests[i].stoppedSince
    /\ isTranslationActive
    /\ startsAwaiting = 0
    /\ connected = {observer}
    /\ \A k \in DOMAIN requests[i].texts :
         Shows(translationPlaceholders, requests[i].texts[k], "loading")
    /\ \E apiKeySet \in BOOLEAN : \E outcome \in Outcomes(requests[i].texts) :
         ENABLED responseArrives(i, translate_batch(requests[i].texts, apiKeySet, outcome))

\* no toggleTranslationForTab call for tab id is under way
NoToggleUnderWay(id) == \A k \in DOMAIN toggles : toggles[k].tabId # id

\* C33: once every toggle issued for a tab has completed, the registry flag of
\* the tab equals the Active flag of the content script in the tab's page; and
\* when the toggles issued were all for that tab, ran to their end and were
\* even in number, the tab is in its original state (not translating, Idle).
C33_TogglesSettleConsistently ==
  \A id \in TabIds :
    (/\ tabs[id].open
     /\ tabs[id].window.translationManager
     /\ NoToggleUnderWay(id))
    => /\ isTranslating(id) = tabs[id].window.isTranslationActive
       /\ (/\ toggles = <<>>
           /\ toggleLog.commands = Len(toggleLog.sent[id])
           /\ Len(toggleLog.sent[id]) % 2 = 0)
          => (~isTranslating(id) /\ ~tabs[id].window.isTranslationActive)

\* C34: handleTranslationBatch terminates for every texts list and every
\* batchSize the options page can store, each provider call terminating: the
\* loop index stays within the texts and every passage through the loop moves
\* it forward, so texts.length - i is a measure that decreases to the return.
C34_LoopAdvances ==
  /\ [](invocation.pc \in {"awaitAll", "sleep"} =>
          (0 <= invocation.i /\ invocation.i < Len(invocation.texts)))
  /\ [][sleepResolves => invocation'.i > invocation.i]_vars

\* C35: the content-side batch size is at least 1 in every reachable state (a
\* stored value that is not greater than 0 falls back to 30), so the
\* admission loop of triggerBatchProcessing takes at least one element per
\* passage and ends: every batch it cuts has maxBatchSize >= 1 elements, the
\* batches and what stays pending are exactly what was pending and added,
\* and fewer than maxBatchSize elements stay pending.
C35_BatchSizePositive ==
  /\ [](contentBatchSize >= 1)
  /\ [][\A storedBatchSize \in StoredBatchSizes :
          (startResume(storedBatchSize) /\ storedBatchSize <= 0)
          => contentBatchSize' = FallbackBatchSize]_vars
  /\ [][\A o \in ObserverIds : \A entries \in EntryLists(observed[o]) :
          (/\ isTranslationActive
           /\ translationRequested' # translationRequested
           /\ handleIntersection(o, entries))
          => /\ \A k \in DOMAIN NewBatches : Len(NewBatches[k].elements) >= 1
             /\ Len(NewBatches) <= Len(accumulationQueue)
                  + Cardinality(translationRequested' \ translationRequested)
             /\ Len(Concat(NewBatches)) + Len(accumulationQueue') =
                  Len(accumulationQueue)
                    + Cardinality(translationRequested' \ translationRequested)
             /\ Len(accumulationQueue') < contentBatchSize]_vars

\* C35 witness: with a batch size of 1 the admission loop has run twice in one
\* callback, taking one element each time, and has left nothing pending.
C35_Witness ==
  /\ isTranslationActive
  /\ startsAwaiting = 0
  /\ contentBatchSize = 1
  /\ Len(handed) = 2
  /\ \A k \in DOMAIN handed : handed[k].cause = "size" /\ Len(handed[k].elements) = 1
  /\ evaluations = [e \in Elements |-> 1]
  /\ accumulationQueue = <<>>
  /\ timers = {}

\* C36: every translate_batch request the background script receives gets
\* exactly one response: the TranslationMap when the handler completes, an
\* empty map when the handler throws or the sender has no tab id; the
\* response is never sent twice and never omitted: while a request is not
\* answered, a provider call of it is in flight or the delay before a
\* sub-batch of its texts is being waited, and it is answered in the end.
C36_ExactlyOneResponse ==
  /\ [](invocation.responses <= 1)
  /\ []((invocation.pc # "idle" /\ invocation.responses = 0) =>
          \/ \E k \in invocation.promises : invocation.calls[k] = "pending"
          \/ /\ invocation.pc = "sleep"
             /\ 0 <= invocation.i + invocation.batchSize
             /\ invocation.i + invocation.batchSize < Len(invocation.texts))
  /\ [][invocation'.responses # invocation.responses =>
          invocation'.response =
            IF invocation'.pc = "returned" THEN invocation'.translationMap
            ELSE EmptyMap]_vars
  /\ (invocation.pc # "idle") ~> (invocation.responses = 1)

\* the positions of the request's texts whose provider call is in state s
CallsIn(inv, s) == {k \in DOMAIN inv.calls : inv.calls[k] = s}

\* C37: within one invocation the sub-batches run strictly one after another:
\* the calls in flight all belong to the current sub-batch and are at most
\* batchSize; a step starts calls only when every call started before has
\* settled, and, if calls were started before, only as the inter-batch delay
\* ends; the delay is waited only while texts without a call remain, never
\* after the last sub-batch.
C37_SubBatchesSequential ==
  /\ [](invocation.pc \notin {"idle", "noTab", "threw"} =>
          /\ CallsIn(invocation, "pending") \subseteq invocation.promises
          /\ CallsIn(invocation, "pending") # {} =>
               Cardinality(CallsIn(invocation, "pending")) <= invocation.batchSize)
  /\ [](invocation.pc = "sleep" =>
          /\ CallsIn(invocation, "pending") = {}
          /\ CallsIn(invocation, "notStarted") # {})
  /\ [][(/\ invocation.pc # "idle"
         /\ CallsIn(invocation', "pending") \ CallsIn(invocation, "pending") # {})
        => /\ CallsIn(invocation, "pending") = {}
           /\ invocation.pc = "sleep"
           /\ sleepResolves]_vars

\* C38: the map handleTranslationBatch answers with has an entry, a
\* translation or an error sentinel, for every text whose provider call was
\* started, the other texts of the sub-batch in which a rate-limit error was
\* detected included.
C38_StartedTextsAnswered ==
  [][(/\ ~invocation.responded
      /\ invocation'.responded
      /\ invocation'.pc = "returned") =>
       \A k \in DOMAIN invocation'.texts :
         invocation'.calls[k] # "notStarted" =>
           invocation'.texts[k] \in DOMAIN invocation'.response]_vars

\* a Map with a loading placeholder for the text of every element of the page
PagePlaceholders ==
  [t \in {innerText(e) : e \in Elements} |->
     [placeholder |-> LoadingNode,
      originalElement |-> CHOOSE e \in Elements : innerText(e) = t]]

\* C39: every key of the map handleTranslationBatch builds and answers with
\* is one of the texts of the request, so the content script's loop over the
\* keys of the response changes the placeholder of no text outside the batch.
C39_KeysAreRequestTexts ==
  /\ DOMAIN invocation.translationMap \subseteq Range(invocation.texts)
  /\ DOMAIN invocation.response \subseteq Range(invocation.texts)
  /\ \A t \in DOMAIN PagePlaceholders \ Range(invocation.texts) :
       updateAll(PagePlaceholders, DOMAIN invocation.response, invocation.response)[t]
         = PagePlaceholders[t]

\* C39 witness: a request whose two texts are both 'Text' was answered with
\* the translation under the one key 'Text'; the page also has the text
\* 'More!', which is not a key.
C39_Witness ==
  /\ invocation.pc = "returned"
  /\ Len(invocation.texts) = 2
  /\ Range(invocation.texts) = {Text}
  /\ DOMAIN invocation.response = {Text}
  /\ invocation.response[Text] = ProviderTranslation(Text)
  /\ More \in DOMAIN PagePlaceholders

=============================================================================
